---- MODULE Spec2Model ----
(***************************************************************************)
(* A model of the katcp codec: the nom grammar of protocol.rs, the Message *)
(* constructors and serializer, the escaping functions of utils.rs, the    *)
(* scalar argument codec of messages/common.rs and the message families    *)
(* generated by katcp_derive.                                              *)
(*                                                                         *)
(* A string is a sequence of characters; a character is a one-element      *)
(* TLA+ string, except NUL and ESC, which have no TLA+ literal and are the  *)
(* atoms "<NUL>" and "<ESC>".  Option<T> is a sequence of length 0 (None)  *)
(* or 1 (Some).  A Result is a record tagged "Ok" or "Err"; a call that    *)
(* aborts (panic, unimplemented!) is the record tagged "Panic".            *)
(***************************************************************************)
EXTENDS Integers, Sequences, FiniteSets

VARIABLES pc, call, msg, text, parsed, value, decoded

vars == <<pc, call, msg, text, parsed, value, decoded>>

-----------------------------------------------------------------------------
(* Characters *)

BSL == "\\"
SP == " "
TAB == "\t"
LF == "\n"
CR == "\r"
NUL == "<NUL>"
ESC == "<ESC>"

Lower == {"a","b","c","d","e","f","g","h","i","j","k","l","m",
          "n","o","p","q","r","s","t","u","v","w","x","y","z"}
Upper == {"A","B","C","D","E","F","G","H","I","J","K","L","M",
          "N","O","P","Q","R","S","T","U","V","W","X","Y","Z"}
Alpha == Lower \cup Upper
Digit == {"0","1","2","3","4","5","6","7","8","9"}
DigitNonZero == Digit \ {"0"}
Alnum == Alpha \cup Digit

\* one_of("\\_0nret@") in protocol.rs escape
EscapeLetters == {BSL, "_", "0", "n", "r", "e", "t", "@"}
\* none_of("\\ \0\n\r\t") in protocol.rs plain
PlainExcluded == {BSL, SP, NUL, LF, CR, TAB}

-----------------------------------------------------------------------------
(* Values *)

None == <<>>
Some(x) == <<x>>

Null == [tag |-> "Null"]
Ok(v) == [tag |-> "Ok", val |-> v]
Err(e) == [tag |-> "Err", err |-> e]
\* KatcpError::ParseError(nom::Err<Error<String>>): the error keeps the input
\* left at the point of failure
ParseError(rest) == [tag |-> "Err", err |-> "ParseError", input |-> rest]
Panic == [tag |-> "Panic"]

IsOk(r) == r.tag = "Ok"
IsErr(r, e) == r.tag = "Err" /\ r.err = e

MessageKind == {"Request", "Reply", "Inform"}

-----------------------------------------------------------------------------
(* Sequence helpers *)

Take(s, n) == SubSeq(s, 1, n)
Drop(s, n) == SubSeq(s, n + 1, Len(s))

\* length of the longest prefix of s whose characters are all in set
RECURSIVE SpanIn(_, _)
SpanIn(s, set) ==
  IF s # <<>> /\ Head(s) \in set THEN 1 + SpanIn(Tail(s), set) ELSE 0

\* length of the longest prefix of s none of whose characters is in set
RECURSIVE SpanNotIn(_, _)
SpanNotIn(s, set) ==
  IF s # <<>> /\ Head(s) \notin set THEN 1 + SpanNotIn(Tail(s), set) ELSE 0

RECURSIVE Concat(_)
Concat(ss) == IF ss = <<>> THEN <<>> ELSE Head(ss) \o Concat(Tail(ss))

\* every string over alphabet of length exactly n / at most n
RECURSIVE StringsOfLen(_, _)
StringsOfLen(alphabet, n) ==
  IF n = 0 THEN {<<>>}
  ELSE {<<c>> \o s : c \in alphabet, s \in StringsOfLen(alphabet, n - 1)}

StringsUpTo(alphabet, n) == UNION {StringsOfLen(alphabet, k) : k \in 0..n}

\* sequences over set of length at most n
SeqsUpTo(set, n) == UNION {[1..len -> set] : len \in 0..n}

-----------------------------------------------------------------------------
(* Integers as decimal text: u32::from_str and u32's Display *)

DigitVal(c) ==
  CASE c = "0" -> 0 [] c = "1" -> 1 [] c = "2" -> 2 [] c = "3" -> 3
    [] c = "4" -> 4 [] c = "5" -> 5 [] c = "6" -> 6 [] c = "7" -> 7
    [] c = "8" -> 8 [] c = "9" -> 9

DigitChar(d) == <<"0","1","2","3","4","5","6","7","8","9">>[d + 1]

\* u32::MAX = 4294967295 as digits
U32MaxDigits == <<"4","2","9","4","9","6","7","2","9","5">>

\* a < b for digit strings of equal length
RECURSIVE DigitsLess(_, _)
DigitsLess(a, b) ==
  IF a = <<>> THEN FALSE
  ELSE IF Head(a) = Head(b) THEN DigitsLess(Tail(a), Tail(b))
  ELSE DigitVal(Head(a)) < DigitVal(Head(b))

\* the digit string with its leading zeros removed
StripZeros(ds) == Drop(ds, SpanIn(ds, {"0"}))

\* whether the digit string denotes a number above u32::MAX
ExceedsU32(ds) ==
  LET s == StripZeros(ds) IN
    \/ Len(s) > Len(U32MaxDigits)
    \/ Len(s) = Len(U32MaxDigits) /\ DigitsLess(U32MaxDigits, s)

RECURSIVE DigitsValue(_, _)
DigitsValue(ds, acc) ==
  IF ds = <<>> THEN acc ELSE DigitsValue(Tail(ds), acc * 10 + DigitVal(Head(ds)))

\* a parse that reads the leading digits and ignores what follows them
ParseU32_prefix(s) ==
  IF SpanIn(s, Digit) = 0 \/ ExceedsU32(Take(s, SpanIn(s, Digit)))
  THEN Err("ParseIntError")
  ELSE Ok(DigitsValue(Take(s, SpanIn(s, Digit)), 0))

\* <u32 as FromStr>::from_str: an optional '+', then one or more digits, no
\* overflow.  Ok(n) or Err("ParseIntError").
ParseU32(s) ==
  LET ds == IF s # <<>> /\ Head(s) = "+" THEN Tail(s) ELSE s IN
    IF ds = <<>> \/ SpanIn(ds, Digit) # Len(ds) \/ ExceedsU32(ds)
    THEN Err("ParseIntError")
    ELSE Ok(DigitsValue(ds, 0))

\* <u32 as Display>::fmt
RECURSIVE U32ToString(_)
U32ToString(n) ==
  IF n < 10 THEN <<DigitChar(n)>>
  ELSE U32ToString(n \div 10) \o <<DigitChar(n % 10)>>

-----------------------------------------------------------------------------
(* protocol.rs: the grammar.  A parser maps its input to                   *)
(* [ok |-> TRUE, val |-> v, rest |-> remaining input] or to                *)
(* [ok |-> FALSE, rest |-> the input where it failed].                     *)

POk(v, rest) == [ok |-> TRUE, val |-> v, rest |-> rest]
PFail(rest) == [ok |-> FALSE, rest |-> rest]

kind(input) ==
  IF input # <<>> /\ Head(input) \in {"!", "#", "?"}
  THEN POk(CASE Head(input) = "?" -> "Request"
             [] Head(input) = "!" -> "Reply"
             [] Head(input) = "#" -> "Inform", Tail(input))
  ELSE PFail(input)

\* the first n characters of input recognized, at least one
recognized(input, n) ==
  IF n >= 1 THEN POk(Take(input, n), Drop(input, n)) ELSE PFail(input)

\* opt(parser): the input left after the parser, or the input itself
opt_rest(r, input) == IF r.ok THEN r.rest ELSE input

whitespace(input) == recognized(input, SpanIn(input, {SP, TAB}))

\* recognize(pair(alpha1, many0(alt((alphanumeric1, tag("-"))))))
name(input) ==
  IF SpanIn(input, Alpha) >= 1
  THEN recognized(input, SpanIn(input, Alpha)
                           + SpanIn(Drop(input, SpanIn(input, Alpha)), Alnum \cup {"-"}))
  ELSE PFail(input)

\* map_res(delimited('[', recognize((one_of("123456789"), digit0)), ']'), str::parse)
id_digits(input, body, n) ==
  IF n = 0 THEN PFail(body)
  ELSE IF Drop(body, n) = <<>> \/ Head(Drop(body, n)) # "]" THEN PFail(Drop(body, n))
  ELSE IF ~IsOk(ParseU32(Take(body, n))) THEN PFail(input)
  ELSE POk(ParseU32(Take(body, n)).val, Tail(Drop(body, n)))

id(input) ==
  IF input = <<>> \/ Head(input) # "[" THEN PFail(input)
  ELSE id_digits(input, Tail(input),
                 IF Tail(input) # <<>> /\ Head(Tail(input)) \in DigitNonZero
                 THEN SpanIn(Tail(input), Digit) ELSE 0)

\* recognize(pair(char('\\'), one_of("\\_0nret@")))
escape_seq(input) ==
  IF Len(input) >= 2 /\ input[1] = BSL /\ input[2] \in EscapeLetters
  THEN POk(Take(input, 2), Drop(input, 2))
  ELSE PFail(input)

\* eol that looks at the terminator and leaves it in the input
eol_peeked(input) ==
  IF input # <<>> /\ Head(input) \in {LF, CR}
  THEN POk(<<Head(input)>>, input)
  ELSE PFail(input)

eol(input) ==
  IF input # <<>> /\ Head(input) \in {LF, CR}
  THEN POk(<<Head(input)>>, Tail(input))
  ELSE PFail(input)

eof(input) == IF input = <<>> THEN POk(<<>>, <<>>) ELSE PFail(input)

plain(input) == recognized(input, SpanNotIn(input, PlainExcluded))

\* the number of characters many1(alt((escape, plain))) consumes
RECURSIVE ArgumentLen(_)
ArgumentLen(input) ==
  IF escape_seq(input).ok THEN 2 + ArgumentLen(escape_seq(input).rest)
  ELSE IF plain(input).ok THEN Len(plain(input).val) + ArgumentLen(plain(input).rest)
  ELSE 0

argument(input) == recognized(input, ArgumentLen(input))

\* preceded(whitespace, argument)
preceded_argument(input) ==
  IF whitespace(input).ok THEN argument(whitespace(input).rest) ELSE PFail(input)

\* many0(preceded(whitespace, argument)): never fails, stops at the first
\* position where whitespace-then-argument does not match
RECURSIVE many0_arguments(_)
many0_push(a, more) == POk(<<a.val>> \o more.val, more.rest)

many0_step(input, a) ==
  IF a.ok THEN many0_push(a, many0_arguments(a.rest)) ELSE POk(<<>>, input)

many0_arguments(input) == many0_step(input, preceded_argument(input))

\* Message::new_unchecked
new_unchecked(k, n, i, arguments) ==
  [kind |-> k, name |-> n, id |-> i, arguments |-> arguments]

\* pub fn message: tuple((kind, name, opt(id), many0(..), opt(whitespace),
\* alt((eol, eof))))
\* alt((eol, eof))
line_end(input) == IF eol(input).ok THEN eol(input) ELSE eof(input)

message_end(k, n, i, as, afterWs) ==
  IF ~line_end(afterWs).ok THEN PFail(afterWs)
  ELSE POk(new_unchecked(k.val, n.val, IF i.ok THEN Some(i.val) ELSE None, as.val),
           line_end(afterWs).rest)

message_arguments(k, n, i, as) ==
  message_end(k, n, i, as, opt_rest(whitespace(as.rest), as.rest))

message_id(k, n, i) == message_arguments(k, n, i, many0_arguments(opt_rest(i, n.rest)))

message_name(k, n) == IF ~n.ok THEN n ELSE message_id(k, n, id(n.rest))

message_kind(k) == IF ~k.ok THEN k ELSE message_name(k, name(k.rest))

message(input) == message_kind(kind(input))

\* Message::new: name and every argument are run through the name and
\* argument parsers; only the parsers' failure is an error
RECURSIVE FirstBadArgument(_)
first_failure(r, others) == IF ~r.ok THEN <<r.rest>> ELSE others

FirstBadArgument(arguments) ==
  IF arguments = <<>> THEN <<>>
  ELSE first_failure(argument(Head(arguments)), FirstBadArgument(Tail(arguments)))

Message_checked(k, n, i, arguments, parsedName, bad) ==
  IF ~parsedName.ok THEN ParseError(parsedName.rest)
  ELSE IF bad # <<>> THEN ParseError(bad[1])
  ELSE Ok(new_unchecked(k, n, i, arguments))

Message_new(k, n, i, arguments) ==
  Message_checked(k, n, i, arguments, name(n), FirstBadArgument(arguments))

\* impl FromStr for Message: the remaining input is dropped
from_parsed(r) == IF r.ok THEN Ok(r.val) ELSE ParseError(r.rest)

from_str(s) == from_parsed(message(s))

\* args_str with a tab pushed before each argument
RECURSIVE args_str_tabbed(_)
args_str_tabbed(arguments) ==
  IF arguments = <<>> THEN <<>>
  ELSE <<TAB>> \o Head(arguments) \o args_str_tabbed(Tail(arguments))

\* impl Display for Message
RECURSIVE args_str(_)
args_str(arguments) ==
  IF arguments = <<>> THEN <<>>
  ELSE <<SP>> \o Head(arguments) \o args_str(Tail(arguments))

\* Display with a space between the name and the id
to_string_spaced_id(m) ==
  LET type_char == CASE m.kind = "Request" -> "?"
                     [] m.kind = "Reply" -> "!"
                     [] m.kind = "Inform" -> "#"
      id_str == IF m.id = None THEN <<>>
                ELSE <<SP, "[">> \o U32ToString(m.id[1]) \o <<"]">>
  IN <<type_char>> \o m.name \o id_str \o args_str(m.arguments) \o <<LF>>

\* impl Display for Message
to_string(m) ==
  LET type_char == CASE m.kind = "Request" -> "?"
                     [] m.kind = "Reply" -> "!"
                     [] m.kind = "Inform" -> "#"
      id_str == IF m.id = None THEN <<>>
                ELSE <<"[">> \o U32ToString(m.id[1]) \o <<"]">>
  IN <<type_char>> \o m.name \o id_str \o args_str(m.arguments) \o <<LF>>


-----------------------------------------------------------------------------
(* utils.rs: escape and unescape, a chain of str::replace calls *)

\* str::replace: every non-overlapping match of pat, left to right, becomes to
RECURSIVE replace(_, _, _)
replace(s, pat, to) ==
  IF Len(s) < Len(pat) THEN s
  ELSE IF Take(s, Len(pat)) = pat THEN to \o replace(Drop(s, Len(pat)), pat, to)
  ELSE <<Head(s)>> \o replace(Tail(s), pat, to)

unescape(input) ==
  replace(replace(replace(replace(replace(replace(replace(replace(input,
    <<BSL, "_">>, <<SP>>),
    <<BSL, "0">>, <<NUL>>),
    <<BSL, "n">>, <<LF>>),
    <<BSL, "r">>, <<CR>>),
    <<BSL, "e">>, <<ESC>>),
    <<BSL, "t">>, <<TAB>>),
    <<BSL, "@">>, <<>>),
    <<BSL, BSL>>, <<BSL>>)

\* escape with the backslash doubled after the other characters are escaped
escape_backslash_last(input) ==
  IF input = <<>> THEN <<BSL, "@">>
  ELSE replace(replace(replace(replace(replace(replace(replace(input,
         <<SP>>, <<BSL, "_">>),
         <<NUL>>, <<BSL, "0">>),
         <<LF>>, <<BSL, "n">>),
         <<CR>>, <<BSL, "r">>),
         <<ESC>>, <<BSL, "e">>),
         <<TAB>>, <<BSL, "t">>),
         <<BSL>>, <<BSL, BSL>>)

\* escape without the empty-string case
escape_nonempty_only(input) ==
  replace(replace(replace(replace(replace(replace(replace(input,
    <<BSL>>, <<BSL, BSL>>),
    <<SP>>, <<BSL, "_">>),
    <<NUL>>, <<BSL, "0">>),
    <<LF>>, <<BSL, "n">>),
    <<CR>>, <<BSL, "r">>),
    <<ESC>>, <<BSL, "e">>),
    <<TAB>>, <<BSL, "t">>)

\* pub fn escape
escape(input) ==
  IF input = <<>> THEN <<BSL, "@">>
  ELSE replace(replace(replace(replace(replace(replace(replace(input,
         <<BSL>>, <<BSL, BSL>>),
         <<SP>>, <<BSL, "_">>),
         <<NUL>>, <<BSL, "0">>),
         <<LF>>, <<BSL, "n">>),
         <<CR>>, <<BSL, "r">>),
         <<ESC>>, <<BSL, "e">>),
         <<TAB>>, <<BSL, "t">>)

-----------------------------------------------------------------------------
(* katcp_derive KatcpDiscrete: an enum's variants and their kebab-case     *)
(* labels, in declaration order                                            *)

RetCode == <<
  <<"Ok", <<"o","k">> >>,
  <<"Invalid", <<"i","n","v","a","l","i","d">> >>,
  <<"Fail", <<"f","a","i","l">> >> >>

Status == <<
  <<"Unknown", <<"u","n","k","n","o","w","n">> >>,
  <<"Nominal", <<"n","o","m","i","n","a","l">> >>,
  <<"Warn", <<"w","a","r","n">> >>,
  <<"Error", <<"e","r","r","o","r">> >>,
  <<"Failure", <<"f","a","i","l","u","r","e">> >>,
  <<"Unreachable", <<"u","n","r","e","a","c","h","a","b","l","e">> >>,
  <<"Inactive", <<"i","n","a","c","t","i","v","e">> >> >>

ChangeSpecificationAction == <<
  <<"Added", <<"a","d","d","e","d">> >>,
  <<"Removed", <<"r","e","m","o","v","e","d">> >>,
  <<"Modified", <<"m","o","d","i","f","i","e","d">> >> >>

ArgumentType == <<
  <<"Integer", <<"i","n","t","e","g","e","r">> >>,
  <<"Float", <<"f","l","o","a","t">> >>,
  <<"Boolean", <<"b","o","o","l","e","a","n">> >>,
  <<"Timestamp", <<"t","i","m","e","s","t","a","m","p">> >>,
  <<"Discrete", <<"d","i","s","c","r","e","t","e">> >>,
  <<"Address", <<"a","d","d","r","e","s","s">> >>,
  <<"String", <<"s","t","r","i","n","g">> >> >>

Variants(enum) == {enum[j][1] : j \in 1..Len(enum)}

\* generated ToKatcpArgument: the variant's label
discrete_to_argument(enum, v) ==
  LET j == CHOOSE j \in 1..Len(enum) : enum[j][1] = v IN enum[j][2]

\* generated FromKatcpArgument: exact label lookup, else BadArgument
discrete_from_argument(enum, s) ==
  IF \E j \in 1..Len(enum) : enum[j][2] = s
  THEN Ok(enum[CHOOSE j \in 1..Len(enum) : enum[j][2] = s][1])
  ELSE Err("BadArgument")

-----------------------------------------------------------------------------
(* std float parsing and printing, as far as the codec uses them.  A float *)
(* is a decimal [neg, m, e] = (-1)^neg * m * 10^e with m a digit string    *)
(* without leading or trailing zeros (empty for zero), or the record       *)
(* [special |-> "inf" | "nan", neg].  Binary rounding is not modelled: the *)
(* model is exact for the tokens it draws, which have few digits.          *)

ToLower(c) ==
  CASE c = "I" -> "i" [] c = "N" -> "n" [] c = "F" -> "f" [] c = "A" -> "a"
    [] c = "T" -> "t" [] c = "Y" -> "y" [] OTHER -> c

LowerCase(s) == [j \in 1..Len(s) |-> ToLower(s[j])]

RECURSIVE Zeros(_)
Zeros(n) == IF n <= 0 THEN <<>> ELSE <<"0">> \o Zeros(n - 1)

RECURSIVE TrailingZeros(_)
TrailingZeros(ds) ==
  IF ds # <<>> /\ ds[Len(ds)] = "0" THEN 1 + TrailingZeros(Take(ds, Len(ds) - 1)) ELSE 0

\* lead * 10^exp with the trailing zeros of lead moved into the exponent
Normalized(neg, lead, exp) ==
  [neg |-> neg,
   m |-> Take(lead, Len(lead) - TrailingZeros(lead)),
   e |-> IF Len(lead) = TrailingZeros(lead) THEN 0 ELSE exp + TrailingZeros(lead)]

Decimal(neg, digits, exp) == Normalized(neg, StripZeros(digits), exp)

\* a leading '+' or '-' and the text after it
IsNegative(s) == s # <<>> /\ Head(s) = "-"
Unsigned(s) == IF s # <<>> /\ Head(s) \in {"+", "-"} THEN Tail(s) ELSE s

\* [(e|E) [sign] digits] to the end of the text; digits holds the integral
\* and the nf fractional digits read so far
ParseExponent(neg, digits, nf, afterFrac) ==
  IF digits = <<>> THEN Err("ParseFloatError")
  ELSE IF afterFrac = <<>> THEN Ok(Decimal(neg, digits, -nf))
  ELSE IF Head(afterFrac) \notin {"e", "E"} THEN Err("ParseFloatError")
  ELSE IF Unsigned(Tail(afterFrac)) = <<>>
          \/ SpanIn(Unsigned(Tail(afterFrac)), Digit) # Len(Unsigned(Tail(afterFrac)))
  THEN Err("ParseFloatError")
  ELSE Ok(Decimal(neg, digits,
                  (IF IsNegative(Tail(afterFrac)) THEN -1 ELSE 1)
                    * DigitsValue(Unsigned(Tail(afterFrac)), 0) - nf))

\* [. digits] after the integral digits int
ParseFractional(neg, int, afterInt) ==
  IF afterInt # <<>> /\ Head(afterInt) = "."
  THEN ParseExponent(neg, int \o Take(Tail(afterInt), SpanIn(Tail(afterInt), Digit)),
                     SpanIn(Tail(afterInt), Digit),
                     Drop(Tail(afterInt), SpanIn(Tail(afterInt), Digit)))
  ELSE ParseExponent(neg, int, 0, afterInt)

ParseIntegral(neg, body) ==
  ParseFractional(neg, Take(body, SpanIn(body, Digit)), Drop(body, SpanIn(body, Digit)))

\* <f32 as FromStr> / <f64 as FromStr>: [sign] (digits [. digits] | . digits)
\* [(e|E) [sign] digits], or inf / infinity / nan in any case
ParseFloat(s) ==
  IF LowerCase(Unsigned(s)) \in {<<"i","n","f">>, <<"i","n","f","i","n","i","t","y">>}
  THEN Ok([special |-> "inf", neg |-> IsNegative(s)])
  ELSE IF LowerCase(Unsigned(s)) = <<"n","a","n">>
  THEN Ok([special |-> "nan", neg |-> IsNegative(s)])
  ELSE ParseIntegral(IsNegative(s), Unsigned(s))

IsSpecial(f) == "special" \in DOMAIN f

\* the digits of |f| before and after the decimal point
IntDigits(f) ==
  IF f.e >= 0 THEN f.m \o Zeros(f.e)
  ELSE IF -f.e < Len(f.m) THEN Take(f.m, Len(f.m) + f.e)
  ELSE <<>>

FracDigits(f) ==
  IF f.e >= 0 THEN <<>>
  ELSE IF -f.e < Len(f.m) THEN Drop(f.m, Len(f.m) + f.e)
  ELSE Zeros(-f.e - Len(f.m)) \o f.m

\* <f32 as Display>::fmt: never scientific notation
FloatToString(f) ==
  IF IsSpecial(f)
  THEN IF f.special = "nan" THEN <<"N","a","N">>
       ELSE (IF f.neg THEN <<"-">> ELSE <<>>) \o <<"i","n","f">>
  ELSE (IF f.neg THEN <<"-">> ELSE <<>>)
       \o (IF IntDigits(f) = <<>> THEN <<"0">> ELSE IntDigits(f))
       \o (IF FracDigits(f) = <<>> THEN <<>> ELSE <<".">> \o FracDigits(f))


-----------------------------------------------------------------------------
(* messages/common.rs: the scalar argument codec *)

\* a <= max for digit strings without leading zeros
DigitsExceed(ds, max) ==
  LET s == StripZeros(ds) IN
    \/ Len(s) > Len(max)
    \/ Len(s) = Len(max) /\ DigitsLess(max, s)

\* i32::MAX = 2147483647 and -i32::MIN = 2147483648 as digits
I32MaxDigits == <<"2","1","4","7","4","8","3","6","4","7">>
I32MinDigits == <<"2","1","4","7","4","8","3","6","4","8">>

\* <i32 as FromStr>::from_str: an optional '+' or '-', then one or more
\* digits, no overflow
ParseI32(s) ==
  LET signed == s # <<>> /\ Head(s) \in {"+", "-"}
      neg == s # <<>> /\ Head(s) = "-"
      ds == IF signed THEN Tail(s) ELSE s
  IN IF ds = <<>> \/ SpanIn(ds, Digit) # Len(ds)
        \/ DigitsExceed(ds, IF neg THEN I32MinDigits ELSE I32MaxDigits)
     THEN Err("ParseIntError")
     ELSE IF neg /\ StripZeros(ds) = I32MinDigits THEN Ok(-2147483647 - 1)
     ELSE Ok((IF neg THEN -1 ELSE 1) * DigitsValue(ds, 0))

I32ToString(n) ==
  IF n >= 0 THEN U32ToString(n)
  ELSE IF n = -2147483647 - 1 THEN <<"-">> \o I32MinDigits
  ELSE <<"-">> \o U32ToString(-n)

\* chrono: the largest second count DateTime<Utc> holds, 8210298412799
ChronoMaxDigits == <<"8","2","1","0","2","9","8","4","1","2","7","9","9">>
\* and the smallest one, -8334632851200, without its sign
ChronoMinDigits == <<"8","3","3","4","6","3","2","8","5","1","2","0","0">>

\* the first nine digits after the point, as a number of nanoseconds
NanosOf(frac) == DigitsValue(Take(frac \o Zeros(9), 9), 0)

\* impl FromKatcpArgument for DateTime<Utc>: parse as f64, truncate to whole
\* seconds, scale the fraction to nanoseconds (a negative fraction casts to
\* 0), then Utc.timestamp, which aborts outside chrono's range
timestamp_from_f64(r) ==
  IF ~IsOk(r) THEN Err("BadArgument")
  ELSE IF IsSpecial(r.val)
  THEN IF r.val.special = "nan" THEN Ok([secs |-> 0, nanos |-> 0]) ELSE Panic
  ELSE IF DigitsExceed(IntDigits(r.val),
                       IF r.val.neg THEN ChronoMinDigits ELSE ChronoMaxDigits)
  THEN Panic
  ELSE Ok([secs |-> (IF r.val.neg THEN -1 ELSE 1) * DigitsValue(IntDigits(r.val), 0),
           nanos |-> IF r.val.neg THEN 0 ELSE NanosOf(FracDigits(r.val))])

timestamp_from_argument(s) == timestamp_from_f64(ParseFloat(s))

RECURSIVE PadLeft(_, _)
PadLeft(ds, n) == IF Len(ds) >= n THEN ds ELSE PadLeft(<<"0">> \o ds, n)

\* impl ToKatcpArgument for DateTime<Utc>: format!("{}", secs + nanos / 1e9)
timestamp_to_argument(t) ==
  LET whole == IF t.secs >= 0 \/ t.nanos = 0 THEN t.secs ELSE t.secs + 1
      nanos == IF t.secs >= 0 \/ t.nanos = 0 THEN t.nanos ELSE 1000000000 - t.nanos
      frac == PadLeft(U32ToString(nanos), 9)
      shown == Take(frac, 9 - TrailingZeros(frac))
  IN (IF t.secs < 0 THEN <<"-">> ELSE <<>>)
     \o U32ToString(IF whole < 0 THEN -whole ELSE whole)
     \o (IF shown = <<>> THEN <<>> ELSE <<".">> \o shown)

\* std::net: the address literals the model knows, each with the value
\* str::parse gives it.  v is the IP version, ip the address as std prints it.
V4Text == <<"1",".","2",".","3",".","4">>
V4LeadingZeroText == <<"1",".","2",".","3",".","0","4">>
V6Text == <<":",":","1">>
V6LongText == <<"0",":","0",":","0",":","0",":","0",":","0",":","0",":","1">>
PortText == <<"5">>

IpLiterals == {
  [text |-> V4Text, v |-> 4, ip |-> V4Text],
  [text |-> V6Text, v |-> 6, ip |-> V6Text],
  [text |-> V6LongText, v |-> 6, ip |-> V6Text] }

SocketLiterals == {
  [text |-> V4Text \o <<":">> \o PortText, v |-> 4, ip |-> V4Text, port |-> 5],
  [text |-> <<"[">> \o V6Text \o <<"]",":">> \o PortText, v |-> 6, ip |-> V6Text, port |-> 5],
  [text |-> <<"[">> \o V6LongText \o <<"]",":">> \o PortText, v |-> 6, ip |-> V6Text, port |-> 5] }

\* <IpAddr as FromStr>::from_str
ParseIpAddr(s) ==
  IF \E l \in IpLiterals : l.text = s
  THEN LET l == CHOOSE l \in IpLiterals : l.text = s
       IN Ok([form |-> "Ip", v |-> l.v, ip |-> l.ip])
  ELSE Err("AddrParseError")

\* <SocketAddr as FromStr>::from_str
ParseSocketAddr(s) ==
  IF \E l \in SocketLiterals : l.text = s
  THEN LET l == CHOOSE l \in SocketLiterals : l.text = s
       IN Ok([form |-> "Socket", v |-> l.v, ip |-> l.ip, port |-> l.port])
  ELSE Err("AddrParseError")

\* impl ToKatcpArgument for KatcpAddress
address_to_argument(a) ==
  IF a.form = "Ip"
  THEN IF a.v = 4 THEN a.ip ELSE <<"[">> \o a.ip \o <<"]">>
  ELSE IF a.v = 4 THEN a.ip \o <<":">> \o U32ToString(a.port)
  ELSE <<"[">> \o a.ip \o <<"]",":">> \o U32ToString(a.port)

\* impl FromKatcpArgument for KatcpAddress
\* a.or_else(|_| b)
or_else(a, b) == IF IsOk(a) THEN a ELSE b

\* r.map_err(|_| KatcpError::BadArgument)
or_bad_argument(r) == IF IsOk(r) THEN r ELSE Err("BadArgument")

\* from_argument without the bracket-stripped parse
address_from_argument_unbracketed(s) ==
  IF s = <<>> THEN Err("BadArgument")
  ELSE or_else(ParseSocketAddr(s), or_bad_argument(ParseIpAddr(s)))

address_from_argument(s) ==
  IF s = <<>> THEN Err("BadArgument")
  ELSE or_else(ParseSocketAddr(s),
         or_else(ParseIpAddr(s),
           IF Head(s) = "[" /\ s[Len(s)] = "]"
           THEN or_bad_argument(ParseIpAddr(SubSeq(s, 2, Len(s) - 1)))
           ELSE Err("BadArgument")))

\* The scalar types of the codec
TString == [t |-> "String"]
TU32 == [t |-> "u32"]
TI32 == [t |-> "i32"]
TBool == [t |-> "bool"]
TF32 == [t |-> "f32"]
TTimestamp == [t |-> "DateTime"]
TAddress == [t |-> "KatcpAddress"]
TDiscrete(enum) == [t |-> "Discrete", enum |-> enum]
TOption(inner) == [t |-> "Option", of |-> inner]

\* ToKatcpArgument::to_argument of a value v of scalar type ty
RECURSIVE to_argument(_, _)
to_argument(ty, v) ==
  CASE ty.t = "String" -> escape(v)
    [] ty.t = "u32" -> U32ToString(v)
    [] ty.t = "i32" -> I32ToString(v)
    [] ty.t = "bool" -> IF v THEN <<"1">> ELSE <<"0">>
    [] ty.t = "f32" -> FloatToString(v)
    [] ty.t = "DateTime" -> timestamp_to_argument(v)
    [] ty.t = "KatcpAddress" -> address_to_argument(v)
    [] ty.t = "Discrete" -> discrete_to_argument(ty.enum, v)
    [] ty.t = "Option" -> IF v = None THEN <<BSL, "@">> ELSE to_argument(ty.of, v[1])

\* a converted value dropped for None
map_some_dropped(r) == IF IsOk(r) THEN Ok(None) ELSE r

\* r.map(Some)
map_some(r) == IF IsOk(r) THEN Ok(Some(r.val)) ELSE r

\* FromKatcpArgument::from_argument of the token s as scalar type ty
RECURSIVE from_argument(_, _)
from_argument(ty, s) ==
  CASE ty.t = "String" -> Ok(unescape(s))
    [] ty.t = "u32" -> or_bad_argument(ParseU32(s))
    [] ty.t = "i32" -> or_bad_argument(ParseI32(s))
    [] ty.t = "bool" -> IF s = <<"1">> THEN Ok(TRUE)
                        ELSE IF s = <<"0">> THEN Ok(FALSE)
                        ELSE Err("BadArgument")
    [] ty.t = "f32" -> or_bad_argument(ParseFloat(s))
    [] ty.t = "DateTime" -> timestamp_from_argument(s)
    [] ty.t = "KatcpAddress" -> address_from_argument(s)
    [] ty.t = "Discrete" -> discrete_from_argument(ty.enum, s)
    [] ty.t = "Option" ->
         IF s = <<BSL, "@">> THEN Ok(None) ELSE map_some(from_argument(ty.of, s))


-----------------------------------------------------------------------------
(* messages/core.rs: the multi-argument types.  from_arguments reads the   *)
(* iterator `strings` front to back; the model indexes the sequence.       *)

\* strings.next().ok_or(KatcpError::MissingArgument) at position j, then
\* <ty>::from_argument
next_argument(ty, strings, j) ==
  IF Len(strings) < j THEN Err("MissingArgument") ELSE from_argument(ty, strings[j])

\* a field of a struct or variant: its name and its scalar type
Field(n, ty) == [name |-> n, ty |-> ty]

\* the results of a run of reads, one per field: the first failure, otherwise
\* the record of the values read
collect_fields(fields, results) ==
  IF \E index \in 1..Len(fields) : ~IsOk(results[index])
  THEN results[CHOOSE index \in 1..Len(fields) :
                 /\ ~IsOk(results[index])
                 /\ \A other \in 1..(index - 1) : IsOk(results[other])]
  ELSE Ok([n \in {fields[index].name : index \in 1..Len(fields)} |->
             results[CHOOSE index \in 1..Len(fields) : fields[index].name = n].val])

\* the fields read one after another from the front of strings, each with
\* next_argument and `?`
read_fields(fields, strings) ==
  collect_fields(fields, [index \in 1..Len(fields) |->
                            next_argument(fields[index].ty, strings, index)])

\* the first failure of two results read in order, otherwise the second
\* pushed behind the first
push_result(first, rest) ==
  IF ~IsOk(first) THEN first
  ELSE IF ~IsOk(rest) THEN rest
  ELSE Ok(<<first.val>> \o rest.val)

\* a record of fields as the data of the named variant
with_variant(variant, r) ==
  IF ~IsOk(r) THEN r
  ELSE Ok([n \in DOMAIN r.val \cup {"variant"} |->
             IF n = "variant" THEN variant ELSE r.val[n]])

\* the arms of GenericReply::from_arguments after the ret_code is read
GenericReply_match(ret_code, message_) ==
  IF ~IsOk(ret_code) THEN ret_code
  ELSE IF ret_code.val = "Ok" THEN Ok([variant |-> "Ok"])
  ELSE IF ~IsOk(message_) THEN message_
  ELSE Ok([variant |-> "Error", ret_code |-> ret_code.val, message |-> message_.val])

\* GenericReply::from_arguments with an absent message read as empty
GenericReply_from_arguments_default_message(strings) ==
  GenericReply_match(next_argument(TDiscrete(RetCode), strings, 1),
                     Ok(IF Len(strings) < 2 THEN <<>> ELSE unescape(strings[2])))

\* impl FromKatcpArguments for GenericReply
GenericReply_from_arguments(strings) ==
  GenericReply_match(next_argument(TDiscrete(RetCode), strings, 1),
                     next_argument(TString, strings, 2))

\* impl ToKatcpArguments for GenericReply
GenericReply_to_arguments(v) ==
  IF v.variant = "Ok" THEN << discrete_to_argument(RetCode, "Ok") >>
  ELSE << discrete_to_argument(RetCode, v.ret_code), to_argument(TString, v.message) >>

\* impl FromKatcpArguments for IntReply
IntReply_ok(num) ==
  IF ~IsOk(num) THEN num ELSE Ok([variant |-> "Ok", num |-> num.val])

IntReply_error(ret_code, message_) ==
  IF ~IsOk(message_) THEN message_
  ELSE Ok([variant |-> "Error", ret_code |-> ret_code.val, message |-> message_.val])

IntReply_match(ret_code, strings) ==
  IF ~IsOk(ret_code) THEN ret_code
  ELSE IF Len(strings) < 2 THEN Err("MissingArgument")
  ELSE IF ret_code.val = "Ok" THEN IntReply_ok(from_argument(TU32, strings[2]))
  ELSE IntReply_error(ret_code, from_argument(TString, strings[2]))

\* IntReply::from_arguments refusing arguments after the second
IntReply_from_arguments_exact(strings) ==
  IF Len(strings) > 2 THEN Err("BadArgument")
  ELSE IntReply_match(next_argument(TDiscrete(RetCode), strings, 1), strings)

IntReply_from_arguments(strings) ==
  IntReply_match(next_argument(TDiscrete(RetCode), strings, 1), strings)

\* impl ToKatcpArguments for IntReply
IntReply_to_arguments(v) ==
  IF v.variant = "Ok"
  THEN << discrete_to_argument(RetCode, "Ok"), to_argument(TU32, v.num) >>
  ELSE << discrete_to_argument(RetCode, v.ret_code), to_argument(TString, v.message) >>

\* enum ProtocolFlags with its Display / TryFrom<String> letters
ProtocolFlags == <<
  <<"MultiClient", <<"M">> >>,
  <<"MessageIds", <<"I">> >>,
  <<"TimeoutHints", <<"T">> >>,
  <<"BulkSampling", <<"B">> >> >>

\* the index of the first occurrence of c in s, 0 when there is none
\* (str::split_once splits there)
RECURSIVE IndexOf(_, _)
IndexOf(s, c) ==
  IF s = <<>> THEN 0
  ELSE IF Head(s) = c THEN 1
  ELSE IF IndexOf(Tail(s), c) = 0 THEN 0
  ELSE IndexOf(Tail(s), c) + 1

\* every order in which a HashSet may yield its elements
RECURSIVE Orderings(_)
Orderings(set) ==
  IF set = {} THEN {<<>>}
  ELSE UNION {{<<x>> \o o : o \in Orderings(set \ {x})} : x \in set}

KatcpProtocolName == <<"k","a","t","c","p","-","p","r","o","t","o","c","o","l">>
KatcpLibraryName == <<"k","a","t","c","p","-","l","i","b","r","a","r","y">>
KatcpDeviceName == <<"k","a","t","c","p","-","d","e","v","i","c","e">>

\* the "katcp-protocol" arm of VersionConnectInform::from_arguments
KatcpProtocol_build(major, minor, flags) ==
  IF ~IsOk(major) THEN Err("BadArgument")
  ELSE IF \E f \in flags : ~IsOk(f) THEN Err("BadArgument")
  ELSE IF ~IsOk(minor) THEN Err("BadArgument")
  ELSE Ok([variant |-> "KatcpProtocol", major |-> major.val, minor |-> minor.val,
           flags |-> {f.val : f \in flags}])

\* the flag letters, each through ProtocolFlags::try_from
KatcpProtocol_flags(flagset) ==
  {discrete_from_argument(ProtocolFlags, <<flagset[j]>>) : j \in 1..Len(flagset)}

\* minor_and_flags split at its first '-', at index dash
KatcpProtocol_minor(major, minor_and_flags, dash) ==
  KatcpProtocol_build(
    major,
    ParseU32(IF dash = 0 THEN minor_and_flags ELSE Take(minor_and_flags, dash - 1)),
    KatcpProtocol_flags(IF dash = 0 THEN <<>> ELSE Drop(minor_and_flags, dash)))

\* version_str split at its first '.', at index dot
KatcpProtocol_major(version_str, dot) ==
  IF dot = 0 THEN Err("BadArgument")
  ELSE KatcpProtocol_minor(ParseU32(Take(version_str, dot - 1)), Drop(version_str, dot),
                           IndexOf(Drop(version_str, dot), "-"))

KatcpProtocol_from_arguments(strings) ==
  IF Len(strings) < 2 THEN Err("MissingArgument")
  ELSE KatcpProtocol_major(strings[2], IndexOf(strings[2], "."))

\* impl FromKatcpArguments for VersionConnectInform
Custom_build(version, inform_type, info) ==
  IF ~IsOk(version) THEN version
  ELSE Ok([variant |-> "Custom", name |-> inform_type,
           version |-> version.val, info |-> info])

\* from_arguments with a closed set of leading literals
VersionConnectInform_from_arguments_closed(strings) ==
  IF Len(strings) < 1 THEN Err("MissingArgument")
  ELSE IF strings[1] = KatcpProtocolName THEN KatcpProtocol_from_arguments(strings)
  ELSE IF strings[1] = KatcpLibraryName
  THEN with_variant("KatcpLibrary",
         read_fields(<<Field("version", TString), Field("build_state", TString)>>,
                     Tail(strings)))
  ELSE IF strings[1] = KatcpDeviceName
  THEN with_variant("KatcpDevice",
         read_fields(<<Field("api_version", TString), Field("device", TAddress),
                       Field("build_state", TString)>>, Tail(strings)))
  ELSE Err("BadArgument")

VersionConnectInform_from_arguments(strings) ==
  IF Len(strings) < 1 THEN Err("MissingArgument")
  ELSE IF strings[1] = KatcpProtocolName THEN KatcpProtocol_from_arguments(strings)
  ELSE IF strings[1] = KatcpLibraryName
  THEN with_variant("KatcpLibrary",
         read_fields(<<Field("version", TString), Field("build_state", TString)>>,
                     Tail(strings)))
  ELSE IF strings[1] = KatcpDeviceName
  THEN with_variant("KatcpDevice",
         read_fields(<<Field("api_version", TString), Field("device", TAddress),
                       Field("build_state", TString)>>, Tail(strings)))
  ELSE Custom_build(next_argument(TString, strings, 2), strings[1],
                    IF Len(strings) < 3 THEN None
                    ELSE Some(from_argument(TString, strings[3]).val))

\* impl ToKatcpArguments for VersionConnectInform: the set of argument
\* vectors it may return, one per iteration order of the flag set
VersionConnectInform_to_arguments(v) ==
  CASE v.variant = "KatcpProtocol" ->
         { << KatcpProtocolName,
              U32ToString(v.major) \o <<".">> \o U32ToString(v.minor)
                \o (IF o = <<>> THEN <<>>
                    ELSE <<"-">> \o Concat([j \in 1..Len(o) |->
                                             discrete_to_argument(ProtocolFlags, o[j])])) >>
           : o \in Orderings(v.flags) }
    [] v.variant = "KatcpLibrary" ->
         { << KatcpLibraryName, to_argument(TString, v.version),
              to_argument(TString, v.build_state) >> }
    [] v.variant = "KatcpDevice" ->
         { << KatcpDeviceName, to_argument(TString, v.api_version),
              to_argument(TAddress, v.device), to_argument(TString, v.build_state) >> }
    [] v.variant = "Custom" ->
         { << to_argument(TString, v.name), to_argument(TString, v.version) >>
           \o (IF v.info = None THEN <<>> ELSE << to_argument(TString, v.info[1]) >>) }

SensorListName == <<"s","e","n","s","o","r","-","l","i","s","t">>
RequestListName == <<"r","e","q","u","e","s","t","-","l","i","s","t">>
SensorName == <<"s","e","n","s","o","r">>
RequestName == <<"r","e","q","u","e","s","t">>

\* from_arguments with a catch-all arm that reads any other literal as
\* sensor-list
InterfaceChangeInform_from_arguments_open(strings) ==
  IF Len(strings) < 1 THEN Err("MissingArgument")
  ELSE IF strings[1] \in {SensorName, RequestName}
  THEN with_variant(IF strings[1] = SensorName THEN "Sensor" ELSE "Request",
         read_fields(<<Field("name", TString),
                       Field("action", TDiscrete(ChangeSpecificationAction))>>,
                     Tail(strings)))
  ELSE IF strings[1] = RequestListName THEN Ok([variant |-> "RequestList"])
  ELSE Ok([variant |-> "SensorList"])

\* impl FromKatcpArguments for InterfaceChangeInform
InterfaceChangeInform_from_arguments(strings) ==
  IF Len(strings) < 1 THEN Err("MissingArgument")
  ELSE IF strings[1] = SensorListName THEN Ok([variant |-> "SensorList"])
  ELSE IF strings[1] = RequestListName THEN Ok([variant |-> "RequestList"])
  ELSE IF strings[1] \in {SensorName, RequestName}
  THEN with_variant(IF strings[1] = SensorName THEN "Sensor" ELSE "Request",
         read_fields(<<Field("name", TString),
                       Field("action", TDiscrete(ChangeSpecificationAction))>>,
                     Tail(strings)))
  ELSE Err("BadArgument")

\* impl ToKatcpArguments for InterfaceChangeInform
InterfaceChangeInform_to_arguments(v) ==
  CASE v.variant = "SensorList" -> << SensorListName >>
    [] v.variant = "RequestList" -> << RequestListName >>
    [] v.variant = "Sensor" ->
         << SensorName, to_argument(TString, v.name),
            to_argument(TDiscrete(ChangeSpecificationAction), v.action) >>
    [] v.variant = "Request" ->
         << RequestName, to_argument(TString, v.name),
            to_argument(TDiscrete(ChangeSpecificationAction), v.action) >>


-----------------------------------------------------------------------------
(* messages/common.rs ArgumentVec and messages/sensors.rs *)

\* the element type from_argument_vec / ArgumentVec::to_arguments use for
\* each ArgumentType
ElementType(ty) ==
  CASE ty = "Integer" -> TI32
    [] ty = "Float" -> TF32
    [] ty = "Boolean" -> TBool
    [] ty = "Timestamp" -> TTimestamp
    [] ty = "Discrete" -> TString
    [] ty = "Address" -> TAddress
    [] ty = "String" -> TString

\* an ArgumentVec value: the variant and its vector
ArgumentVec(ty, items) == [variant |-> ty, items |-> [ty_ \in {ty} |-> items]]
ArgumentVec_items(v) == v.items[v.variant]

\* pub fn from_argument_vec: every remaining string is converted; collect
\* stops at the first one that fails
\* a run of results in order: the first failure, otherwise the values
collect_values(results) ==
  IF \E j \in 1..Len(results) : ~IsOk(results[j])
  THEN results[CHOOSE j \in 1..Len(results) :
                 /\ ~IsOk(results[j])
                 /\ \A k \in 1..(j - 1) : IsOk(results[k])]
  ELSE Ok([j \in 1..Len(results) |-> results[j].val])

\* the items as the vector of the variant ty
vec_of(ty, items) == IF ~IsOk(items) THEN items ELSE Ok(ArgumentVec(ty, items.val))

\* from_argument_vec converting the next string only
from_argument_vec_next_only(ty, strings) ==
  vec_of(ty, collect_values([j \in 1..(IF strings = <<>> THEN 0 ELSE 1) |->
                              from_argument(ElementType(ty), strings[j])]))

from_argument_vec(ty, strings) ==
  vec_of(ty, collect_values([j \in 1..Len(strings) |->
                              from_argument(ElementType(ty), strings[j])]))

\* impl ToKatcpArguments for ArgumentVec
ArgumentVec_to_arguments(v) ==
  [j \in 1..Len(ArgumentVec_items(v)) |->
     to_argument(ElementType(v.variant), ArgumentVec_items(v)[j])]

\* impl FromKatcpArguments for SensorListInform
SensorListInform_build(head, params) ==
  IF ~IsOk(params) THEN params
  ELSE Ok([name |-> head.name, description |-> head.description,
           units |-> head.units, params |-> params.val])

\* the four leading fields read, then the rest as the vector of type ty
SensorListInform_params(head, strings) ==
  IF ~IsOk(head) THEN head
  ELSE SensorListInform_build(head.val, from_argument_vec(head.val.ty, Drop(strings, 4)))

SensorListInform_from_arguments(strings) ==
  SensorListInform_params(
    read_fields(<<Field("name", TString), Field("description", TString),
                  Field("units", TString), Field("ty", TDiscrete(ArgumentType))>>,
                strings),
    strings)

\* impl ToKatcpArguments for SensorListInform
SensorListInform_to_arguments(v) ==
  << to_argument(TString, v.name), to_argument(TString, v.description),
     to_argument(TString, v.units), discrete_to_argument(ArgumentType, v.params.variant) >>
  \o ArgumentVec_to_arguments(v.params)

\* enum SamplingStrategy: each variant with its verb and its number of f32
\* parameters, in field order
SamplingStrategy == <<
  <<"Auto", <<"a","u","t","o">>, 0>>,
  <<"None", <<"n","o","n","e">>, 0>>,
  <<"Period", <<"p","e","r","i","o","d">>, 1>>,
  <<"Event", <<"e","v","e","n","t">>, 0>>,
  <<"Differential", <<"d","i","f","f","e","r","e","n","t","i","a","l">>, 1>>,
  <<"EventRate", <<"e","v","e","n","t","-","r","a","t","e">>, 2>>,
  <<"DifferentialRate",
    <<"d","i","f","f","e","r","e","n","t","i","a","l","-","r","a","t","e">>, 3>> >>

\* the parameters of one verb: the next n strings as f32, the first failure
\* (exhaustion or a bad number) ending the read
RECURSIVE strategy_params(_, _, _)
strategy_params(strings, j, n) ==
  IF n = 0 THEN Ok(<<>>)
  ELSE push_result(next_argument(TF32, strings, j), strategy_params(strings, j + 1, n - 1))

\* impl FromKatcpArguments for SamplingStrategy
SamplingStrategy_build(row, params) ==
  IF ~IsOk(params) THEN params ELSE Ok([variant |-> row[1], params |-> params.val])

\* the match on the verb
SamplingStrategy_match(strat, strings) ==
  IF ~IsOk(strat) THEN strat
  ELSE IF \E j \in 1..Len(SamplingStrategy) : SamplingStrategy[j][2] = strat.val
  THEN SamplingStrategy_build(
         SamplingStrategy[CHOOSE j \in 1..Len(SamplingStrategy) :
                            SamplingStrategy[j][2] = strat.val],
         strategy_params(strings, 2,
           SamplingStrategy[CHOOSE j \in 1..Len(SamplingStrategy) :
                              SamplingStrategy[j][2] = strat.val][3]))
  ELSE Err("BadArgument")

SamplingStrategy_from_arguments(strings) ==
  SamplingStrategy_match(next_argument(TString, strings, 1), strings)

\* impl ToKatcpArguments for SamplingStrategy
SamplingStrategy_to_arguments(v) ==
  << SamplingStrategy[CHOOSE j \in 1..Len(SamplingStrategy) :
                        SamplingStrategy[j][1] = v.variant][2] >>
  \o [j \in 1..Len(v.params) |-> to_argument(TF32, v.params[j])]

\* impl FromKatcpArguments for SamplingRequest
SamplingRequest_build(names, strategy) ==
  IF ~IsOk(names) THEN names
  ELSE IF IsOk(strategy) THEN Ok([names |-> names.val, strategy |-> Some(strategy.val)])
  ELSE IF IsErr(strategy, "BadArgument") THEN strategy
  ELSE Ok([names |-> names.val, strategy |-> None])

SamplingRequest_from_arguments(strings) ==
  SamplingRequest_build(next_argument(TString, strings, 1),
                        SamplingStrategy_from_arguments(Drop(strings, 1)))

\* impl ToKatcpArguments for SamplingRequest
SamplingRequest_to_arguments(v) ==
  << to_argument(TString, v.names) >>
  \o (IF v.strategy = None THEN <<>> ELSE SamplingStrategy_to_arguments(v.strategy[1]))

\* impl FromKatcpArguments for SamplingReply
SamplingReply_build(names, strategy) ==
  IF ~IsOk(names) THEN names
  ELSE IF ~IsOk(strategy) THEN strategy
  ELSE Ok([names |-> names.val, strategy |-> strategy.val])

SamplingReply_from_arguments(strings) ==
  SamplingReply_build(next_argument(TString, strings, 1),
                      SamplingStrategy_from_arguments(Drop(strings, 1)))

\* impl ToKatcpArguments for SamplingReply
SamplingReply_to_arguments(v) ==
  << to_argument(TString, v.names) >> \o SamplingStrategy_to_arguments(v.strategy)

\* impl FromKatcpArguments for SensorReading
SensorReading_from_arguments(strings) ==
  read_fields(<<Field("name", TString), Field("status", TDiscrete(Status)),
                Field("value", TString)>>, strings)

\* impl ToKatcpArguments for SensorReading
SensorReading_to_arguments(v) ==
  << to_argument(TString, v.name), to_argument(TDiscrete(Status), v.status),
     to_argument(TString, v.value) >>

\* the loop ending quietly when the strings run out
RECURSIVE read_readings_until_exhausted(_, _)
read_readings_until_exhausted(strings, num_sensors) ==
  IF num_sensors = 0 \/ strings = <<>> THEN Ok(<<>>)
  ELSE push_result(SensorReading_from_arguments(strings),
                   read_readings_until_exhausted(Drop(strings, 3), num_sensors - 1))

\* the loop `for _ in 1..=num_sensors` of SensorUpdates::from_arguments
RECURSIVE read_readings(_, _)
read_readings(strings, num_sensors) ==
  IF num_sensors = 0 THEN Ok(<<>>)
  ELSE push_result(SensorReading_from_arguments(strings),
                   read_readings(Drop(strings, 3), num_sensors - 1))

\* impl FromKatcpArguments for SensorUpdates
SensorUpdates_build(timestamp, readings) ==
  IF ~IsOk(readings) THEN readings
  ELSE Ok([timestamp |-> timestamp.val, readings |-> readings.val])

\* the timestamp and the count read, then the readings
SensorUpdates_readings(timestamp, num_sensors, strings) ==
  IF ~IsOk(timestamp) THEN timestamp
  ELSE IF ~IsOk(num_sensors) THEN num_sensors
  ELSE SensorUpdates_build(timestamp, read_readings(Drop(strings, 2), num_sensors.val))

SensorUpdates_from_arguments(strings) ==
  SensorUpdates_readings(next_argument(TTimestamp, strings, 1),
                         next_argument(TU32, strings, 2), strings)

\* impl ToKatcpArguments for SensorUpdates
SensorUpdates_to_arguments(v) ==
  << to_argument(TTimestamp, v.timestamp), to_argument(TU32, Len(v.readings)) >>
  \o Concat([j \in 1..Len(v.readings) |-> SensorReading_to_arguments(v.readings[j])])

\* pub struct Sensor<T>: the value type T and the four fields
\* Sensor::new
Sensor_new(T, name_, status, timestamp, v) ==
  [T |-> T, name |-> name_, status |-> status, timestamp |-> timestamp, value |-> v]

\* Sensor::value / Sensor::status / Sensor::last_updated
Sensor_value(self) == self.value
Sensor_status(self) == self.status
Sensor_last_updated(self) == self.timestamp

\* an update that keeps the timestamp of the sensor
Sensor_update_stale(self, status, timestamp, v) ==
  [self EXCEPT !.status = status, !.value = v]

\* Sensor::update
Sensor_update(self, status, timestamp, v) ==
  [self EXCEPT !.status = status, !.timestamp = timestamp, !.value = v]

\* the outcome of a call that may change the sensor: what it returns and the
\* sensor after it
Returned(result, self) == [result |-> result, self |-> self]

\* update_from_reading that takes the status and the timestamp of the
\* reading before its value is decoded
Sensor_update_from_reading_eager(self, timestamp, reading) ==
  IF self.name # reading.name THEN Returned(Err("Message"), self)
  ELSE IF ~IsOk(from_argument(self.T, reading.value))
  THEN Returned(from_argument(self.T, reading.value),
                [self EXCEPT !.status = reading.status, !.timestamp = timestamp])
  ELSE Returned(Ok(<<>>),
                Sensor_update(self, reading.status, timestamp,
                              from_argument(self.T, reading.value).val))

\* Sensor::update_from_reading: the name check, then T::from_argument of the
\* reading's value (its `?` returns before update is called), then update
Sensor_update_from_reading(self, timestamp, reading) ==
  IF self.name # reading.name THEN Returned(Err("Message"), self)
  ELSE IF ~IsOk(from_argument(self.T, reading.value))
  THEN Returned(from_argument(self.T, reading.value), self)
  ELSE Returned(Ok(<<>>),
                Sensor_update(self, reading.status, timestamp,
                              from_argument(self.T, reading.value).val))


-----------------------------------------------------------------------------
(* katcp_derive: #[derive(KatcpMessage)] and the enums it decorates *)

\* what a family enum declares for one message kind: no variant, a unit
\* variant, a variant with named fields (their types in order), or a variant
\* wrapping one multi-argument type
Absent == [shape |-> "Absent"]
Unit == [shape |-> "Unit"]
Named(fields) == [shape |-> "Named", fields |-> fields]
Unnamed(ty) == [shape |-> "Unnamed", ty |-> ty]

\* pub enum Halt
Halt ==
  [family |-> "Halt", name |-> <<"h","a","l","t">>,
   Request |-> Unit, Reply |-> Unnamed("GenericReply"),
   Inform |-> Absent]

\* pub enum Help
Help ==
  [family |-> "Help", name |-> <<"h","e","l","p">>,
   Request |-> Named(<<Field("name", TOption(TString))>>),
   Reply |-> Unnamed("IntReply"),
   Inform |-> Named(<<Field("name", TString), Field("description", TString)>>)]

\* pub enum Restart
Restart ==
  [family |-> "Restart", name |-> <<"r","e","s","t","a","r","t">>,
   Request |-> Unit, Reply |-> Unnamed("GenericReply"),
   Inform |-> Absent]

\* pub enum Watchdog
Watchdog ==
  [family |-> "Watchdog", name |-> <<"w","a","t","c","h","d","o","g">>,
   Request |-> Unit, Reply |-> Unnamed("GenericReply"),
   Inform |-> Absent]

\* pub enum VersionList
VersionList ==
  [family |-> "VersionList", name |-> <<"v","e","r","s","i","o","n","-","l","i","s","t">>,
   Request |-> Unit, Reply |-> Unnamed("IntReply"),
   Inform |-> Named(<<Field("name", TString), Field("version", TString), Field("uuid", TString)>>)]

\* pub enum Disconnect
Disconnect ==
  [family |-> "Disconnect", name |-> <<"d","i","s","c","o","n","n","e","c","t">>,
   Request |-> Absent, Reply |-> Absent,
   Inform |-> Named(<<Field("message", TString)>>)]

\* pub enum VersionConnect
VersionConnect ==
  [family |-> "VersionConnect", name |-> <<"v","e","r","s","i","o","n","-","c","o","n","n","e","c","t">>,
   Request |-> Absent, Reply |-> Absent,
   Inform |-> Unnamed("VersionConnectInform")]

\* pub enum InterfaceChanged
InterfaceChanged ==
  [family |-> "InterfaceChanged", name |-> <<"i","n","t","e","r","f","a","c","e","-","c","h","a","n","g","e","d">>,
   Request |-> Absent, Reply |-> Absent,
   Inform |-> Unnamed("InterfaceChangeInform")]

\* pub enum SensorList
SensorList ==
  [family |-> "SensorList", name |-> <<"s","e","n","s","o","r","-","l","i","s","t">>,
   Request |-> Named(<<Field("name", TOption(TString))>>),
   Reply |-> Unnamed("IntReply"),
   Inform |-> Unnamed("SensorListInform")]

\* pub enum SensorSampling
SensorSampling ==
  [family |-> "SensorSampling", name |-> <<"s","e","n","s","o","r","-","s","a","m","p","l","i","n","g">>,
   Request |-> Unnamed("SamplingRequest"), Reply |-> Unnamed("SamplingReply"),
   Inform |-> Absent]

\* pub enum SensorValue
SensorValue ==
  [family |-> "SensorValue", name |-> <<"s","e","n","s","o","r","-","v","a","l","u","e">>,
   Request |-> Named(<<Field("name", TOption(TString))>>),
   Reply |-> Unnamed("IntReply"),
   Inform |-> Unnamed("SensorUpdates")]

\* pub enum SensorStatus
SensorStatus ==
  [family |-> "SensorStatus", name |-> <<"s","e","n","s","o","r","-","s","t","a","t","u","s">>,
   Request |-> Absent, Reply |-> Absent,
   Inform |-> Unnamed("SensorUpdates")]

\* pub enum ClientList
ClientList ==
  [family |-> "ClientList", name |-> <<"c","l","i","e","n","t","-","l","i","s","t">>,
   Request |-> Unit, Reply |-> Unnamed("IntReply"),
   Inform |-> Named(<<Field("addr", TAddress)>>)]

\* pub enum ClientConnected
ClientConnected ==
  [family |-> "ClientConnected", name |-> <<"c","l","i","e","n","t","-","c","o","n","n","e","c","t","e","d">>,
   Request |-> Absent, Reply |-> Absent,
   Inform |-> Named(<<Field("message", TString)>>)]

\* the enums deriving KatcpMessage
Derived == {Halt, Help, Restart, Watchdog, VersionList,
            Disconnect, VersionConnect, InterfaceChanged, SensorList, SensorSampling,
            SensorValue, SensorStatus, ClientList, ClientConnected}

\* to_case(Case::Kebab) of the enum's name
message_str(family) == family.name

\* the fields of a named variant, left to right: msg.arguments().get(index)
\* .ok_or(MissingArgument)? then <typ>::from_argument(..)?; the first failure
\* is returned, otherwise Self::#kind { fields }
named_fields(fields, arguments) == read_fields(fields, arguments)

\* <ty>::from_arguments(&mut arg_iter) for the wrapped type of an unnamed
\* variant
from_arguments(ty, strings) ==
  CASE ty = "GenericReply" -> GenericReply_from_arguments(strings)
    [] ty = "IntReply" -> IntReply_from_arguments(strings)
    [] ty = "VersionConnectInform" -> VersionConnectInform_from_arguments(strings)
    [] ty = "InterfaceChangeInform" -> InterfaceChangeInform_from_arguments(strings)
    [] ty = "SensorListInform" -> SensorListInform_from_arguments(strings)
    [] ty = "SamplingRequest" -> SamplingRequest_from_arguments(strings)
    [] ty = "SamplingReply" -> SamplingReply_from_arguments(strings)
    [] ty = "SensorUpdates" -> SensorUpdates_from_arguments(strings)

\* field.to_arguments() for the wrapped type: the vectors it may return
to_arguments(ty, v) ==
  CASE ty = "GenericReply" -> {GenericReply_to_arguments(v)}
    [] ty = "IntReply" -> {IntReply_to_arguments(v)}
    [] ty = "VersionConnectInform" -> VersionConnectInform_to_arguments(v)
    [] ty = "InterfaceChangeInform" -> {InterfaceChangeInform_to_arguments(v)}
    [] ty = "SensorListInform" -> {SensorListInform_to_arguments(v)}
    [] ty = "SamplingRequest" -> {SamplingRequest_to_arguments(v)}
    [] ty = "SamplingReply" -> {SamplingReply_to_arguments(v)}
    [] ty = "SensorUpdates" -> {SensorUpdates_to_arguments(v)}

\* the data of a unit variant
NoFields == [unit |-> TRUE]
\* the data of a variant wrapping a value of type ty: Self::#kind(field)
Wrapped(ty, field) == [ty_ \in {ty} |-> field]

\* a typed value: the family, the variant (named after the kind) and its data
Typed(family, k, data) == [family |-> family.family, kind |-> k, data |-> data]

\* to_request_variant / to_reply_variant / to_inform_variant, or the
\* unimplemented!() that stands in for a variant the enum does not declare
\* the data of the variant read from the arguments
variant_data(variant, arguments) ==
  CASE variant.shape = "Unit" -> Ok(NoFields)
    [] variant.shape = "Named" -> named_fields(variant.fields, arguments)
    [] variant.shape = "Unnamed" -> from_arguments(variant.ty, arguments)

typed_variant(family, k, data) ==
  IF ~IsOk(data) THEN data
  ELSE Ok(Typed(family, k, IF family[k].shape = "Unnamed"
                           THEN Wrapped(family[k].ty, data.val) ELSE data.val))

to_variant(family, k, msg_) ==
  IF family[k].shape = "Absent" THEN Panic
  ELSE typed_variant(family, k, variant_data(family[k], msg_.arguments))

\* the match on message.kind() of the generated try_from
kind_dispatch(family, msg_) == to_variant(family, msg_.kind, msg_)

\* try_from with the argument decode ahead of the name check
name_checked_after(family, msg_, result) ==
  IF result.tag = "Err" THEN result
  ELSE IF msg_.name # message_str(family) THEN Err("IncorrectType")
  ELSE result

try_from_arguments_first(family, msg_) ==
  name_checked_after(family, msg_, kind_dispatch(family, msg_))

\* impl TryFrom<Message> for #message_name
try_from(family, msg_) ==
  IF msg_.name # message_str(family) THEN Err("IncorrectType")
  ELSE kind_dispatch(family, msg_)

\* to_request_message_args / to_reply_message_args / to_inform_message_args:
\* the argument vectors the variant may produce
to_message_args(family, v) ==
  LET variant == family[v.kind] IN
    CASE variant.shape = "Unit" -> {<<>>}
      [] variant.shape = "Named" ->
           {[j \in 1..Len(variant.fields) |->
               to_argument(variant.fields[j].ty, v.data[variant.fields[j].name])]}
      [] variant.shape = "Unnamed" -> to_arguments(variant.ty, v.data[variant.ty])

\* impl KatcpMessage for #message_name: to_message(&self, id)
to_message(family, v, i) ==
  {Ok(new_unchecked(v.kind, message_str(family), i, args)) :
     args \in to_message_args(family, v)}


-----------------------------------------------------------------------------
(* messages/log.rs: the hand-written Log family (decode side) *)

LogLevel == <<
  <<"Off", <<"o","f","f">> >>,
  <<"Fatal", <<"f","a","t","a","l">> >>,
  <<"Error", <<"e","r","r","o","r">> >>,
  <<"Warn", <<"w","a","r","n">> >>,
  <<"Info", <<"i","n","f","o">> >>,
  <<"Debug", <<"d","e","b","u","g">> >>,
  <<"Trace", <<"t","r","a","c","e">> >>,
  <<"All", <<"a","l","l">> >> >>

\* pub enum Log: its name and the kinds it declares
Log == [family |-> "Log", name |-> <<"l","o","g">>]

\* i64::MAX = 9223372036854775807 and -i64::MIN as digits
I64MaxDigits ==
  <<"9","2","2","3","3","7","2","0","3","6","8","5","4","7","7","5","8","0","7">>
I64MinDigits ==
  <<"9","2","2","3","3","7","2","0","3","6","8","5","4","7","7","5","8","0","8">>

\* fn str_to_timestamp: the text before the first '.', parsed as i64 whole
\* seconds; Utc.timestamp aborts outside chrono's range
\* the signed digits ds as whole seconds
whole_seconds(neg, ds) ==
  IF ds = <<>> \/ SpanIn(ds, Digit) # Len(ds)
     \/ DigitsExceed(ds, IF neg THEN I64MinDigits ELSE I64MaxDigits)
  THEN Err("BadArgument")
  ELSE IF DigitsExceed(ds, IF neg THEN ChronoMinDigits ELSE ChronoMaxDigits)
  THEN Panic
  ELSE Ok([secs |-> (IF neg THEN -1 ELSE 1) * DigitsValue(ds, 0), nanos |-> 0])

\* s.split('.').next(): the text before the first '.', at index dot
before_dot(s, dot) == IF dot = 0 THEN s ELSE Take(s, dot - 1)

str_to_timestamp(s) ==
  whole_seconds(IsNegative(before_dot(s, IndexOf(s, "."))),
                Unsigned(before_dot(s, IndexOf(s, "."))))

\* fn request_from_message
\* the data read as the Log variant of kind k
Log_variant(k, data) == IF ~IsOk(data) THEN data ELSE Ok(Typed(Log, k, data.val))

request_level(level) ==
  IF ~IsOk(level) THEN level
  ELSE Ok(Typed(Log, "Request", [level |-> Some(level.val)]))

request_from_message(msg_) ==
  IF Len(msg_.arguments) < 1 THEN Ok(Typed(Log, "Request", [level |-> None]))
  ELSE request_level(discrete_from_argument(LogLevel, msg_.arguments[1]))

\* fn reply_from_message
reply_from_message(msg_) ==
  Log_variant("Reply",
    read_fields(<<Field("ret_code", TDiscrete(RetCode)),
                  Field("level", TDiscrete(LogLevel))>>, msg_.arguments))

\* fn inform_from_message
inform_build(level, time, arguments) ==
  IF ~IsOk(level) THEN level
  ELSE IF ~IsOk(time) THEN time
  ELSE IF Len(arguments) < 4 THEN Err("MissingArgument")
  ELSE Ok(Typed(Log, "Inform",
                [level |-> level.val, timestamp |-> time.val,
                 name |-> unescape(arguments[3]), message |-> unescape(arguments[4])]))

inform_from_message(msg_) ==
  inform_build(next_argument(TDiscrete(LogLevel), msg_.arguments, 1),
               IF Len(msg_.arguments) < 2 THEN Err("MissingArgument")
               ELSE str_to_timestamp(msg_.arguments[2]),
               msg_.arguments)

\* impl TryFrom<Message> for Log
Log_try_from(msg_) ==
  IF msg_.name # Log.name THEN Err("IncorrectType")
  ELSE CASE msg_.kind = "Request" -> request_from_message(msg_)
         [] msg_.kind = "Reply" -> reply_from_message(msg_)
         [] msg_.kind = "Inform" -> inform_from_message(msg_)

\* fn args_from_inform / args_from_reply / args_from_request
Log_args(v) ==
  CASE v.kind = "Inform" ->
         << discrete_to_argument(LogLevel, v.data.level),
            timestamp_to_argument(v.data.timestamp),
            escape(v.data.name), escape(v.data.message) >>
    [] v.kind = "Reply" ->
         << discrete_to_argument(RetCode, v.data.ret_code),
            discrete_to_argument(LogLevel, v.data.level) >>
    [] v.kind = "Request" ->
         IF v.data.level = None THEN <<>>
         ELSE << discrete_to_argument(LogLevel, v.data.level[1]) >>

\* impl KatcpMessage for Log: into_message(self, id)
Log_into_message(v, i) == Ok(new_unchecked(v.kind, Log.name, i, Log_args(v)))

\* every type with a TryFrom<Message> impl, and the impl each one uses
Families == Derived \cup {Log}
decode(family, msg_) ==
  IF family.family = "Log" THEN Log_try_from(msg_) ELSE try_from(family, msg_)

\* every type with a KatcpMessage impl: the Messages its encoder may produce
encode(family, v, i) ==
  IF family.family = "Log" THEN {Log_into_message(v, i)} ELSE to_message(family, v, i)

-----------------------------------------------------------------------------
(* The protocol layer as a state machine: a caller either builds a Message *)
(* with Message::new and serializes it, or receives a line of text; the    *)
(* text is then parsed with Message::from_str.                             *)

\* total size (characters of the name, plus one per argument and its
\* characters) of the name and arguments a caller hands to Message::new
MaxNewSize == 3
\* length of a received line
MaxLineLen == 4

NewAlphabet == {"a", "1", "-", SP, BSL, "_"}
LineAlphabet == {"?", "a", "[", "1", "]", SP, CR, BSL}

\* argument lists whose arguments cost one plus their length each, within budget
RECURSIVE ArgListsWithin(_, _)
ArgListsWithin(alphabet, budget) ==
  {<<>>} \cup
  UNION {{<<a>> \o rest : rest \in ArgListsWithin(alphabet, budget - Len(a) - 1)} :
           a \in StringsUpTo(alphabet, budget - 1)}

NewInputs ==
  UNION {{<<n, as>> : as \in ArgListsWithin(NewAlphabet, MaxNewSize - Len(n))} :
           n \in StringsUpTo(NewAlphabet, MaxNewSize)}

NewIds == {None, Some(0), Some(7), Some(10)}

Init ==
  /\ pc = "start"
  /\ call = Null
  /\ msg = Null
  /\ text = <<>>
  /\ parsed = Null
  /\ value = Null
  /\ decoded = Null

New ==
  /\ pc = "start"
  /\ \E k \in MessageKind, in \in NewInputs, i \in NewIds :
       /\ call' = [kind |-> k, name |-> in[1], id |-> i, arguments |-> in[2]]
       /\ msg' = Message_new(k, in[1], i, in[2])
  /\ pc' = "constructed"
  /\ UNCHANGED <<text, parsed, value, decoded>>

\* arguments of a Message built from whole words
MaxNewArgs == 3

\* names and arguments as a caller of Message::new writes them: words, an
\* escaped word, a number
NewNames == {<<"a">>, <<"a", "-", "b">>}
NewWords == {<<"a">>, <<"b", BSL, "_">>, <<"1">>}

\* Message::new on a name and a list of words
NewOfWords ==
  /\ pc = "start"
  /\ \E k \in MessageKind, n \in NewNames, i \in NewIds :
       \E as \in SeqsUpTo(NewWords, MaxNewArgs) :
         /\ call' = [kind |-> k, name |-> n, id |-> i, arguments |-> as]
         /\ msg' = Message_new(k, n, i, as)
  /\ pc' = "constructed"
  /\ UNCHANGED <<text, parsed, value, decoded>>

Serialize ==
  /\ pc = "constructed"
  /\ IsOk(msg)
  /\ text' = to_string(msg.val)
  /\ pc' = "serialized"
  /\ UNCHANGED <<call, msg, parsed, value, decoded>>

Receive ==
  /\ pc = "start"
  /\ \E line \in StringsUpTo(LineAlphabet, MaxLineLen) : text' = line
  /\ pc' = "serialized"
  /\ UNCHANGED <<call, msg, parsed, value, decoded>>

\* the digits between the brackets of a received line's id: zero, a leading
\* zero, small ids, i32::MAX, one above u32::MAX, none
IdTextPool ==
  {<<"0">>, <<"0", "7">>, <<"7">>, <<"1", "0">>, I32MaxDigits,
   <<"4","2","9","4","9","6","7","2","9","6">>, <<>>}
\* what follows the id: nothing, the end of the line, an argument
AfterIdPool == {<<>>, <<LF>>, <<SP, "a", LF>>}

\* a received line carrying an id after its name
ReceiveId ==
  /\ pc = "start"
  /\ \E digits \in IdTextPool, after \in AfterIdPool :
       /\ call' = [digits |-> digits]
       /\ text' = <<"?", "a", "[">> \o digits \o <<"]">> \o after
  /\ pc' = "serialized"
  /\ UNCHANGED <<msg, parsed, value, decoded>>

\* arguments of a received line built from words
MaxLineArgs == 2

\* a received line as a peer may write it: sigil, name and id, then
\* arguments each after a space, a tab or two spaces, then optional trailing
\* whitespace, then LF, CR or the end of the input
LineHeads ==
  {<<"?", "a">>, <<"!", "b", "[", "7", "]">>, <<"#", "c", "-", "d", "[", "1", "0", "]">>}
LineGaps == {<<SP>>, <<TAB>>, <<SP, SP>>}
LineWords == {<<"x">>, <<BSL, "_", "y">>}
LineTrails == {<<>>, <<SP>>}
LineEnds == {<<LF>>, <<CR>>, <<>>}
LineArguments == SeqsUpTo({gap \o word : gap \in LineGaps, word \in LineWords}, MaxLineArgs)

ReceiveLine ==
  /\ pc = "start"
  /\ \E head \in LineHeads, arguments \in LineArguments :
       \E trail \in LineTrails, end \in LineEnds :
         text' = head \o Concat(arguments) \o trail \o end
  /\ pc' = "serialized"
  /\ UNCHANGED <<call, msg, parsed, value, decoded>>

FromStr ==
  /\ pc = "serialized"
  /\ parsed' = from_str(text)
  /\ pc' = "parsed"
  /\ UNCHANGED <<call, msg, text, value, decoded>>

\* string_and_back: Message::from_str(msg_str).unwrap().to_string()
StringAndBack ==
  /\ pc = "parsed"
  /\ IsOk(parsed)
  /\ value' = to_string(parsed.val)
  /\ pc' = "reserialized"
  /\ UNCHANGED <<call, msg, text, parsed, decoded>>

\* the text written by string_and_back, parsed again
FromStrAgain ==
  /\ pc = "reserialized"
  /\ decoded' = from_str(value)
  /\ pc' = "reparsed"
  /\ UNCHANGED <<call, msg, text, parsed, value>>

Next ==
  \/ New \/ NewOfWords \/ Serialize \/ Receive \/ ReceiveId \/ ReceiveLine \/ FromStr
  \/ StringAndBack \/ FromStrAgain

Spec == Init /\ [][Next]_vars

-----------------------------------------------------------------------------
(* The typed layer as a state machine: a caller either builds a typed      *)
(* value, turns it into a Message, serializes and parses it back           *)
(* (roundtrip_test), or is handed a Message; the Message is then decoded   *)
(* with the TryFrom<Message> impl of the family the caller asks for.       *)

\* arguments of a delivered Message
MaxArgs == 2
\* parameters after the strategy verb of a delivered sensor-sampling message
MaxParams == 4
\* arguments after the count of a delivered sensor-value / sensor-status inform
MaxFollow == 6
\* readings of a constructed SensorUpdates value
MaxReadings == 2

\* field values a caller puts into typed values
StringPool == {<<"a">>, <<"a", SP, "b">>, <<BSL, "n">>, <<>>}
\* strings of control characters
ControlPool == {<<"a", NUL, LF>>, <<CR, TAB, ESC, BSL>>}
OptionPool(strings) == {None} \cup {Some(s) : s \in strings}
U32Pool == {0, 7}
F32Pool == {ParseFloat(<<"0">>).val, ParseFloat(<<"1", ".", "5">>).val}
TimestampPool == {[secs |-> 0, nanos |-> 0], [secs |-> 5, nanos |-> 500000000]}
AddressPool ==
  {[form |-> "Ip", v |-> l.v, ip |-> l.ip] : l \in IpLiterals}
  \cup {[form |-> "Socket", v |-> l.v, ip |-> l.ip, port |-> l.port] : l \in SocketLiterals}
ArgumentVecPool(strings) ==
  {ArgumentVec("Integer", <<>>), ArgumentVec("Integer", <<-1, 7>>),
   ArgumentVec("Boolean", <<TRUE, FALSE>>), ArgumentVec("Address", <<>>)}
  \cup {ArgumentVec("Float", <<f>>) : f \in F32Pool}
  \cup {ArgumentVec("Timestamp", <<t>>) : t \in TimestampPool}
  \cup {ArgumentVec("Discrete", <<s>>) : s \in strings}
  \cup {ArgumentVec("String", <<s>>) : s \in strings}

\* the values of a field of scalar type ty
RECURSIVE ScalarValues(_, _, _)
ScalarValues(ty, strings, options) ==
  CASE ty.t = "String" -> strings
    [] ty.t = "u32" -> U32Pool
    [] ty.t = "f32" -> F32Pool
    [] ty.t = "DateTime" -> TimestampPool
    [] ty.t = "KatcpAddress" -> AddressPool
    [] ty.t = "Discrete" -> Variants(ty.enum)
    [] ty.t = "Option" -> IF ty.of.t = "String" THEN options
                          ELSE OptionPool(ScalarValues(ty.of, strings, options))

\* the values of a variant with named fields
NamedValues(fields, strings, options) ==
  LET names == {fields[j].name : j \in 1..Len(fields)}
      tyOf(n) == fields[CHOOSE j \in 1..Len(fields) : fields[j].name = n].ty
  IN {r \in [names -> UNION {ScalarValues(tyOf(n), strings, options) : n \in names}] :
        \A n \in names : r[n] \in ScalarValues(tyOf(n), strings, options)}

CodedErrors(strings) ==
  {[variant |-> "Error", ret_code |-> c, message |-> s] : c \in Variants(RetCode), s \in strings}

SamplingStrategyValues ==
  UNION {{[variant |-> SamplingStrategy[j][1], params |-> p] :
            p \in [1..SamplingStrategy[j][3] -> F32Pool]} : j \in 1..Len(SamplingStrategy)}

\* the values of a multi-argument type
WrappedValues(ty, strings, options) ==
  CASE ty = "GenericReply" -> {[variant |-> "Ok"]} \cup CodedErrors(strings)
    [] ty = "IntReply" -> {[variant |-> "Ok", num |-> n] : n \in U32Pool} \cup CodedErrors(strings)
    [] ty = "VersionConnectInform" ->
         {[variant |-> "KatcpProtocol", major |-> a, minor |-> b, flags |-> f] :
            a \in U32Pool, b \in U32Pool, f \in SUBSET Variants(ProtocolFlags)}
         \cup {[variant |-> "KatcpLibrary", version |-> a, build_state |-> b] :
                 a \in strings, b \in strings}
         \cup {[variant |-> "KatcpDevice", api_version |-> a, device |-> d, build_state |-> b] :
                 a \in strings, d \in AddressPool, b \in strings}
         \cup {[variant |-> "Custom", name |-> a, version |-> b, info |-> o] :
                 a \in strings, b \in strings, o \in options}
    [] ty = "InterfaceChangeInform" ->
         {[variant |-> "SensorList"], [variant |-> "RequestList"]}
         \cup {[variant |-> w, name |-> a, action |-> c] :
                 w \in {"Sensor", "Request"}, a \in strings,
                 c \in Variants(ChangeSpecificationAction)}
    [] ty = "SensorListInform" ->
         {[name |-> a, description |-> b, units |-> c, params |-> p] :
            a \in strings, b \in strings, c \in strings, p \in ArgumentVecPool(strings)}
    [] ty = "SamplingRequest" ->
         {[names |-> a, strategy |-> o] :
            a \in strings, o \in OptionPool(SamplingStrategyValues)}
    [] ty = "SamplingReply" ->
         {[names |-> a, strategy |-> o] : a \in strings, o \in SamplingStrategyValues}
    [] ty = "SensorUpdates" ->
         {[timestamp |-> t, readings |-> r] :
            t \in TimestampPool,
            r \in SeqsUpTo({[name |-> a, status |-> c, value |-> a] :
                              a \in strings, c \in {"Nominal", "Unknown"}}, MaxReadings)}

\* the typed values of one family and kind
VariantValues(family, k, strings, options) ==
  LET variant == family[k] IN
    CASE variant.shape = "Absent" -> {}
      [] variant.shape = "Unit" -> {Typed(family, k, NoFields)}
      [] variant.shape = "Named" ->
           {Typed(family, k, d) : d \in NamedValues(variant.fields, strings, options)}
      [] variant.shape = "Unnamed" ->
           {Typed(family, k, Wrapped(variant.ty, d)) :
              d \in WrappedValues(variant.ty, strings, options)}

ValuesOver(strings, options) ==
  UNION {VariantValues(family, k, strings, options) : family \in Derived, k \in MessageKind}

\* the values of the Log family
LogValues(strings) ==
  {Typed(Log, "Inform", [level |-> l, timestamp |-> t, name |-> a, message |-> b]) :
     l \in {"Warn"}, t \in TimestampPool, a \in strings, b \in strings}
  \cup {Typed(Log, "Reply", [ret_code |-> c, level |-> l]) :
          c \in Variants(RetCode), l \in {"Warn", "All"}}
  \cup {Typed(Log, "Request", [level |-> o]) : o \in OptionPool({"Warn", "All"})}

Values ==
  ValuesOver(StringPool, OptionPool(StringPool))
  \cup ValuesOver(ControlPool, OptionPool(ControlPool))
  \cup LogValues(StringPool \cup ControlPool)

\* the family enum of a typed value
FamilyOf(v) == CHOOSE family \in Families : family.family = v.family

\* tokens of delivered argument lists: the three codes, a word that is no
\* code and no number, a number, an escaped string, the empty-string escape
ArgPool ==
  {<<"o","k">>, <<"i","n","v","a","l","i","d">>, <<"f","a","i","l">>,
   <<"x">>, <<"7">>, <<"a", BSL, "_", "b">>, <<BSL, "@">>}
\* tokens after a sampling verb: a whole number, a decimal, a word
ParamPool == {<<"1">>, <<"1", ".", "5">>, <<"x">>}
\* the strategy verbs and a word that is none of them
VerbPool == {SamplingStrategy[j][2] : j \in 1..Len(SamplingStrategy)} \cup {<<"x">>}
\* tokens of a sensor update: timestamps, counts, and what follows the count
\* (a string that is no status label, a string that is one)
StampPool == {<<"1", ".", "5">>, <<"x">>}
CountPool == {<<"0">>, <<"1">>, <<"2">>, <<"x">>}
FollowPool == {<<"a">>, <<"w","a","r","n">>}

\* the names a Message handed to a family's decoder carries: the family's
\* own, another family's, one no family has
UnknownName == <<"x">>
NamePool(family) ==
  {family.name, IF family.name = Help.name THEN Halt.name ELSE Help.name, UnknownName}

\* roundtrip_test: let raw = message.to_message(None)
Construct ==
  /\ pc = "start"
  /\ \E v \in Values :
       /\ value' = v
       /\ call' = [family |-> FamilyOf(v)]
  /\ pc' = "typed"
  /\ UNCHANGED <<msg, text, parsed, decoded>>

ToMessage ==
  /\ pc = "typed"
  /\ msg' \in encode(call.family, value, None)
  /\ pc' = "constructed"
  /\ UNCHANGED <<call, text, parsed, value, decoded>>

\* a Message of any kind, with a name and arguments, handed to the decoder
\* of any family
Deliver ==
  /\ pc = "start"
  /\ \E family \in Families, k \in MessageKind :
       \E n \in NamePool(family), arguments \in SeqsUpTo(ArgPool, MaxArgs) :
         /\ call' = [family |-> family]
         /\ parsed' = Ok(new_unchecked(k, n, None, arguments))
  /\ pc' = "parsed"
  /\ UNCHANGED <<msg, text, value, decoded>>

\* a sensor-sampling request or reply: sensor name, verb, parameters
DeliverSampling ==
  /\ pc = "start"
  /\ \E k \in {"Request", "Reply"}, verb \in VerbPool :
       \E params \in SeqsUpTo(ParamPool, MaxParams) :
         parsed' = Ok(new_unchecked(k, SensorSampling.name, None,
                                    << <<"w">>, verb >> \o params))
  /\ call' = [family |-> SensorSampling]
  /\ pc' = "parsed"
  /\ UNCHANGED <<msg, text, value, decoded>>

\* a sensor-value or sensor-status inform: timestamp, count, what follows
DeliverUpdates ==
  /\ pc = "start"
  /\ \E family \in {SensorValue, SensorStatus}, stamp \in StampPool, count \in CountPool :
       \E follow \in SeqsUpTo(FollowPool, MaxFollow) :
         /\ call' = [family |-> family]
         /\ parsed' = Ok(new_unchecked("Inform", family.name, None,
                                       <<stamp, count>> \o follow))
  /\ pc' = "parsed"
  /\ UNCHANGED <<msg, text, value, decoded>>

\* elements after the type tag of a delivered sensor-list inform
MaxElements == 2

\* the type tags and a word that is none; elements: integers, a decimal, a
\* word, an escaped string, an address, a float that is no timestamp
TagPool == {ArgumentType[j][2] : j \in 1..Len(ArgumentType)} \cup {<<"x">>}
ElementPool ==
  {<<"1">>, <<"-", "1">>, <<"1", ".", "5">>, <<"x">>, <<"a", BSL, "_", "b">>, V4Text,
   <<"i", "n", "f">>}

\* a sensor-list inform: name, description, units, type tag, elements
DeliverSensorList ==
  /\ pc = "start"
  /\ \E tag \in TagPool, elements \in SeqsUpTo(ElementPool, MaxElements) :
       parsed' = Ok(new_unchecked("Inform", SensorList.name, None,
                                  << <<"w">>, <<"a", BSL, "_", "b">>, <<BSL, "@">>, tag >>
                                  \o elements))
  /\ call' = [family |-> SensorList]
  /\ pc' = "parsed"
  /\ UNCHANGED <<msg, text, value, decoded>>

\* arguments after the leading literal of a delivered version-connect inform
MaxVersionArgs == 3

\* leading literals: the three named ones, a word, an escaped word, a
\* literal in another case; following arguments: versions with and without
\* flags, an escaped string, an address, the empty-string escape
LiteralPool ==
  {KatcpProtocolName, KatcpLibraryName, KatcpDeviceName, <<"x">>, <<"a", BSL, "_", "b">>,
   <<"K">> \o Tail(KatcpProtocolName)}
VersionArgPool ==
  {<<"1", ".", "2">>, <<"1", ".", "2", "-", "M", "I">>, <<"a", BSL, "_", "b">>, V4Text,
   <<BSL, "@">>}

\* a version-connect inform: leading literal, then its arguments
DeliverVersion ==
  /\ pc = "start"
  /\ \E literal \in LiteralPool, following \in SeqsUpTo(VersionArgPool, MaxVersionArgs) :
       parsed' = Ok(new_unchecked("Inform", VersionConnect.name, None,
                                  <<literal>> \o following))
  /\ call' = [family |-> VersionConnect]
  /\ pc' = "parsed"
  /\ UNCHANGED <<msg, text, value, decoded>>

\* timestamps of a delivered log inform: whole seconds, a half, the
\* nanosecond example of test_from_message_str, a word
LogStampPool ==
  {<<"5">>, <<"1", ".", "5">>,
   <<"4", "2", "0", ".", "0", "0", "0", "0", "0", "0", "0", "6", "9">>, <<"x">>}
LogLevelPool == {<<"w","a","r","n">>, <<"x">>}
LogTextPool == {<<"a">>, <<"a", BSL, "_", "b">>}

\* a log inform: level, timestamp, logger name, message
DeliverLog ==
  /\ pc = "start"
  /\ \E level \in LogLevelPool, stamp \in LogStampPool :
       \E n \in LogTextPool, message_ \in LogTextPool :
         parsed' = Ok(new_unchecked("Inform", Log.name, None,
                                    <<level, stamp, n, message_>>))
  /\ call' = [family |-> Log]
  /\ pc' = "parsed"
  /\ UNCHANGED <<msg, text, value, decoded>>

\* arguments after the leading literal of a delivered interface-changed inform
MaxChangeArgs == 3

\* leading literals: the four named ones, a word, a literal in another case,
\* the empty-string escape; following arguments: an escaped name, the three
\* action labels, a word
ChangeLiteralPool ==
  {SensorListName, RequestListName, SensorName, RequestName, <<"x">>,
   <<"S">> \o Tail(SensorName), <<BSL, "@">>}
ChangeArgPool ==
  {<<"a", BSL, "_", "b">>, <<"a","d","d","e","d">>, <<"r","e","m","o","v","e","d">>,
   <<"m","o","d","i","f","i","e","d">>, <<"x">>}

\* an interface-changed inform: leading literal, then its arguments
DeliverInterface ==
  /\ pc = "start"
  /\ \E literal \in ChangeLiteralPool, following \in SeqsUpTo(ChangeArgPool, MaxChangeArgs) :
       parsed' = Ok(new_unchecked("Inform", InterfaceChanged.name, None,
                                  <<literal>> \o following))
  /\ call' = [family |-> InterfaceChanged]
  /\ pc' = "parsed"
  /\ UNCHANGED <<msg, text, value, decoded>>

\* raw_test.try_into() / <family>::try_from(message)
TryFrom ==
  /\ pc = "parsed"
  /\ call # Null
  /\ IsOk(parsed)
  /\ decoded' = decode(call.family, parsed.val)
  /\ pc' = "decoded"
  /\ UNCHANGED <<call, msg, text, parsed, value>>

\* arguments a peer sends after those a decoder has accepted
MaxSurplus == 2
SurplusPool == {<<"x">>, <<"7">>, <<BSL, "@">>}

\* longer is shorter with at least one more argument at its end
Lengthened(shorter, longer) ==
  /\ longer.kind = shorter.kind /\ longer.name = shorter.name /\ longer.id = shorter.id
  /\ Len(longer.arguments) > Len(shorter.arguments)
  /\ Take(longer.arguments, Len(shorter.arguments)) = shorter.arguments

\* a Message of a peer: one this decoder has accepted (kept in msg), with
\* more arguments at its end
DeliverSurplus ==
  /\ pc = "decoded"
  /\ IsOk(decoded)
  /\ ~(IsOk(msg) /\ Lengthened(msg.val, parsed.val))
  /\ \E surplus \in SeqsUpTo(SurplusPool, MaxSurplus) \ {<<>>} :
       parsed' = Ok(new_unchecked(parsed.val.kind, parsed.val.name, parsed.val.id,
                                  parsed.val.arguments \o surplus))
  /\ msg' = parsed
  /\ value' = Null /\ text' = <<>> /\ decoded' = Null
  /\ pc' = "parsed"
  /\ UNCHANGED call

NextTyped ==
  \/ Construct \/ ToMessage \/ Serialize \/ FromStr
  \/ Deliver \/ DeliverSampling \/ DeliverUpdates \/ DeliverSensorList \/ DeliverVersion
  \/ DeliverLog \/ DeliverInterface \/ DeliverSurplus
  \/ TryFrom

SpecTyped == Init /\ [][NextTyped]_vars

-----------------------------------------------------------------------------
(* The argument codec as a state machine: a caller either converts a       *)
(* scalar value with to_argument and converts the token back               *)
(* (test_arguments), or is handed a token; the token is then converted     *)
(* with from_argument of the scalar type the caller asks for.              *)

\* length of a string value
MaxStringLen == 3

\* the characters escape and unescape treat specially, the letters of the
\* escape sequences, and an ordinary character
StringAlphabet ==
  {BSL, SP, NUL, LF, CR, ESC, TAB, "_", "0", "n", "r", "e", "t", "@", "a"}

DiscreteTypes ==
  {TDiscrete(RetCode), TDiscrete(Status), TDiscrete(ArgumentType),
   TDiscrete(ChangeSpecificationAction)}
BaseTypes == {TString, TU32, TI32, TBool, TF32, TTimestamp, TAddress} \cup DiscreteTypes
ScalarTypes == BaseTypes \cup {TOption(ty) : ty \in BaseTypes}

\* the values of scalar type ty a caller converts
RECURSIVE ArgumentValues(_)
ArgumentValues(ty) ==
  CASE ty.t = "String" -> StringsUpTo(StringAlphabet, MaxStringLen)
    [] ty.t = "u32" -> {0, 7, 10, 2147483647}
    [] ty.t = "i32" -> {-2147483647 - 1, -1, 0, 7, 2147483647}
    [] ty.t = "bool" -> BOOLEAN
    [] ty.t = "f32" -> F32Pool
    [] ty.t = "DateTime" -> TimestampPool
    [] ty.t = "KatcpAddress" -> AddressPool
    [] ty.t = "Discrete" -> Variants(ty.enum)
    [] ty.t = "Option" -> OptionPool(ArgumentValues(ty.of))

\* tokens handed to from_argument: the empty token, the absent marker, words,
\* numbers, an infinite float, labels, and address texts with and without
\* brackets and ports
TokenPool ==
  {<<>>, <<BSL, "@">>, <<"x">>, <<"a", BSL, "_", "b">>, <<"0">>, <<"1">>, <<"+", "5">>,
   <<"-", "1">>, <<"1", ".", "5">>, <<"i", "n", "f">>, <<"o","k">>, <<"w","a","r","n">>,
   V4Text, V4LeadingZeroText, V6Text, V6LongText,
   <<"[">> \o V4Text \o <<"]">>, <<"[">> \o V6Text \o <<"]">>,
   <<"[">> \o V6LongText \o <<"]">>, <<"[">> \o <<"x">> \o <<"]">>, <<"[", "]">>,
   V4Text \o <<":">> \o PortText, V6Text \o <<":">> \o PortText,
   <<"[">> \o V4Text \o <<"]", ":">> \o PortText,
   <<"[">> \o V6Text \o <<"]", ":">> \o PortText,
   <<"[">> \o V6Text \o <<"]", ":">>}

\* let v: T = ...
ChooseValue ==
  /\ pc = "start"
  /\ \E ty \in ScalarTypes : \E v \in ArgumentValues(ty) :
       /\ call' = [ty |-> ty, given |-> "value"]
       /\ value' = v
  /\ pc' = "value"
  /\ UNCHANGED <<msg, text, parsed, decoded>>

\* v.to_argument()
ToArgument ==
  /\ pc = "value"
  /\ text' = to_argument(call.ty, value)
  /\ pc' = "argument"
  /\ UNCHANGED <<call, msg, parsed, value, decoded>>

\* a token of a received message, to be read as a scalar of some type
ReceiveArgument ==
  /\ pc = "start"
  /\ \E ty \in ScalarTypes, token \in TokenPool :
       /\ call' = [ty |-> ty, given |-> "token"]
       /\ text' = token
  /\ pc' = "argument"
  /\ UNCHANGED <<msg, parsed, value, decoded>>

\* integer tokens: the empty token, bare signs, zero with and without sign,
\* leading zeros, signed and unsigned numbers, digits followed or preceded by
\* other characters, and the numbers at and beyond the ends of both ranges
IntegerTokenPool ==
  {<<>>, <<"+">>, <<"-">>, <<"0">>, <<"-", "0">>, <<"+", "0">>, <<"0", "0", "7">>,
   <<"7">>, <<"+", "5">>, <<"-", "1">>, <<"-", "-", "1">>, <<"+", "-", "1">>,
   <<"1", "2", "a">>, <<"a", "1">>, <<"1", ".", "5">>, <<"1", "e", "3">>, <<"0", "x", "1">>,
   I32MaxDigits, <<"+">> \o I32MaxDigits, <<"-">> \o I32MaxDigits,
   <<"-">> \o I32MinDigits,
   <<"-", "2","1","4","7","4","8","3","6","4","9">>,
   <<"4","2","9","4","9","6","7","2","9","6">>,
   <<"9","9","9","9","9","9","9","9","9","9","9">>}
\* tokens between i32::MAX and u32::MAX, read as i32 only
AboveI32Pool == {I32MinDigits, U32MaxDigits}

\* a token of a received message, to be read as a u32 or an i32
ReceiveInteger ==
  /\ pc = "start"
  /\ \E ty \in {TU32, TI32} :
       \E token \in IntegerTokenPool \cup (IF ty = TI32 THEN AboveI32Pool ELSE {}) :
         /\ call' = [ty |-> ty, given |-> "token"]
         /\ text' = token
  /\ pc' = "argument"
  /\ UNCHANGED <<msg, parsed, value, decoded>>

\* string tokens: every string of up to MaxTokenLen characters, over the
\* backslash, the seven other escape letters and an ordinary letter, that is
\* an argument of the grammar from its first character to its last
MaxTokenLen == 3
TokenAlphabet == EscapeLetters \cup {"a"}
StringTokenPool ==
  {t \in StringsUpTo(TokenAlphabet, MaxTokenLen) : argument(t).ok /\ argument(t).rest = <<>>}

\* an argument of a parsed message, to be read as a String
ReceiveString ==
  /\ pc = "start"
  /\ \E token \in StringTokenPool :
       /\ call' = [ty |-> TString, given |-> "token"]
       /\ text' = token
  /\ pc' = "argument"
  /\ UNCHANGED <<msg, parsed, value, decoded>>

\* T::from_argument(token)
FromArgument ==
  /\ pc = "argument"
  /\ decoded' = from_argument(call.ty, text)
  /\ pc' = "converted"
  /\ UNCHANGED <<call, msg, text, parsed, value>>

NextArgument ==
  ChooseValue \/ ToArgument \/ ReceiveArgument \/ ReceiveInteger \/ ReceiveString
    \/ FromArgument

SpecArgument == Init /\ [][NextArgument]_vars

-----------------------------------------------------------------------------
(* A stream of messages: the application parses lines into Messages and    *)
(* writes each to a stream with Display; the reader of the stream applies  *)
(* many1(message) (parse_many_messages of the module documentation).       *)

\* Messages written to the stream
MaxMessages == 3

\* lines the application receives: a bare request, a reply with id and an
\* argument ended by CR, an inform with an escaped argument and no
\* terminator, tabs and trailing whitespace, two arguments, a line followed
\* by more text, and three lines that do not parse
StreamLinePool ==
  {<<"?", "a", LF>>,
   <<"!", "b", "[", "7", "]", SP, "x", CR>>,
   <<"#", "c", "-", "d", SP, BSL, "_", "y">>,
   <<"?", "a", TAB, "1", SP, LF>>,
   <<"!", "b", SP, "1", SP, "[", "2", "]", LF>>,
   <<"?", "a", CR, "[">>,
   <<"a", LF>>, <<"?", "a", "[", "0", "]", LF>>, <<"?", "a", SP, BSL, LF>>}

\* the application parses a line with from_str and writes the Message to the
\* stream with Display
Accept ==
  /\ pc \in {"start", "collecting"}
  /\ pc = "collecting" => Len(value) < MaxMessages
  /\ \E line \in StreamLinePool :
       /\ IsOk(from_str(line))
       /\ value' = (IF pc = "start" THEN <<>> ELSE value) \o <<from_str(line).val>>
       /\ text' = text \o to_string(from_str(line).val)
  /\ pc' = "collecting"
  /\ UNCHANGED <<call, msg, parsed, decoded>>

\* nom::multi::many1, the first application of the parser: its failure is
\* the failure of many1
many1_entered(r) ==
  IF r.ok
  THEN /\ parsed' = <<r.val>>
       /\ call' = [rest |-> r.rest]
       /\ pc' = "streaming"
       /\ UNCHANGED decoded
  ELSE /\ decoded' = ParseError(r.rest)
       /\ pc' = "streamed"
       /\ UNCHANGED <<call, parsed>>

many1_first ==
  /\ pc \in {"start", "collecting"}
  /\ many1_entered(message(text))
  /\ UNCHANGED <<msg, text, value>>

\* nom::multi::many1, one turn of its loop: a failure ends the list, a
\* success that consumed nothing is an error, any other success is pushed
many1_looped(r) ==
  IF ~r.ok
  THEN /\ decoded' = Ok([rest |-> call.rest, messages |-> parsed])
       /\ pc' = "streamed"
       /\ UNCHANGED <<call, parsed>>
  ELSE IF Len(r.rest) = Len(call.rest)
  THEN /\ decoded' = ParseError(call.rest)
       /\ pc' = "streamed"
       /\ UNCHANGED <<call, parsed>>
  ELSE /\ parsed' = Append(parsed, r.val)
       /\ call' = [rest |-> r.rest]
       /\ UNCHANGED <<pc, decoded>>

many1_next ==
  /\ pc = "streaming"
  /\ many1_looped(message(call.rest))
  /\ UNCHANGED <<msg, text, value>>

NextStream == Accept \/ many1_first \/ many1_next

SpecStream == Init /\ [][NextStream]_vars

-----------------------------------------------------------------------------
(* A sensor as a state machine: the application makes a Sensor<T> and then *)
(* updates it any number of times, with values it has in hand (update) or  *)
(* with the readings of sensor-value / sensor-status informs               *)
(* (update_from_reading).                                                  *)

\* value types of sensors and the values a caller has in hand for each
SensorTypes == {TF32, TU32, TString, TTimestamp}
SensorValues(T) ==
  CASE T.t = "f32" -> F32Pool
    [] T.t = "u32" -> U32Pool
    [] T.t = "String" -> {<<"a">>, <<"a", SP, "b">>}
    [] T.t = "DateTime" -> TimestampPool
SensorNames == {<<"a">>, <<"b">>}
SensorStatuses == {"Unknown", "Nominal", "Warn"}

\* the value strings of readings: a decimal, a whole number, a word, a
\* string holding an escape pair, the empty string, an infinite float
ReadingValuePool ==
  {<<"1", ".", "5">>, <<"7">>, <<"x">>, <<"a", BSL, "_", "b">>, <<>>, <<"i","n","f">>}
Readings ==
  {[name |-> n, status |-> s, value |-> v] :
     n \in SensorNames, s \in SensorStatuses, v \in ReadingValuePool}

\* let mut sensor = Sensor::new(name, status, timestamp, value)
NewSensor ==
  /\ pc = "start"
  /\ \E T \in SensorTypes, n \in SensorNames, status \in SensorStatuses :
       \E timestamp \in TimestampPool, v \in SensorValues(T) :
         value' = Sensor_new(T, n, status, timestamp, v)
  /\ call' = [op |-> "new"]
  /\ pc' = "sensor"
  /\ UNCHANGED <<msg, text, parsed, decoded>>

\* sensor.update(&status, &timestamp, &value)
Update ==
  /\ pc = "sensor"
  /\ \E status \in SensorStatuses, timestamp \in TimestampPool, v \in SensorValues(value.T) :
       /\ call' = [op |-> "update", status |-> status, timestamp |-> timestamp, value |-> v]
       /\ value' = Sensor_update(value, status, timestamp, v)
  /\ decoded' = Ok(<<>>)
  /\ UNCHANGED <<pc, msg, text, parsed>>

\* sensor.update_from_reading(&timestamp, &reading); an abort of
\* T::from_argument ends the program
UpdateFromReading ==
  /\ pc = "sensor"
  /\ \E timestamp \in TimestampPool, reading \in Readings :
       /\ call' = [op |-> "update_from_reading", timestamp |-> timestamp,
                   reading |-> reading]
       /\ decoded' = Sensor_update_from_reading(value, timestamp, reading).result
       /\ value' = Sensor_update_from_reading(value, timestamp, reading).self
       /\ pc' = IF Sensor_update_from_reading(value, timestamp, reading).result = Panic
                THEN "aborted" ELSE "sensor"
  /\ UNCHANGED <<msg, text, parsed>>

NextSensor == NewSensor \/ Update \/ UpdateFromReading

SpecSensor == Init /\ [][NextSensor]_vars

-----------------------------------------------------------------------------
(* The grammar of the specification, stated on whole strings: what the     *)
(* claims about Message::new and the parser compare the code against.      *)

\* name := ALPHA *(ALNUM | '-'), the entire string
MatchesName(s) ==
  /\ s # <<>>
  /\ s[1] \in Alpha
  /\ \A j \in 2..Len(s) : s[j] \in Alnum \cup {"-"}

\* every backslash of s starts one of the eight escape sequences
RECURSIVE WellEscaped(_)
WellEscaped(s) ==
  IF s = <<>> THEN TRUE
  ELSE IF Head(s) = BSL
  THEN Len(s) >= 2 /\ s[2] \in EscapeLetters /\ WellEscaped(Drop(s, 2))
  ELSE WellEscaped(Tail(s))

\* argument := 1*(escape | plain), the entire string
MatchesArgument(s) ==
  /\ s # <<>>
  /\ \A j \in 1..Len(s) : s[j] \notin {SP, TAB, NUL, CR, LF}
  /\ WellEscaped(s)

\* C1: every Message that Message::new returns Ok for (any kind, name, id of
\* type Option<u32>, argument list) parses back from its serialized text to a
\* Message equal to it in all four fields.
C1_RoundTrip ==
  (pc = "parsed" /\ IsOk(msg)) => parsed = Ok(msg.val)

\* C2: Message::new returns Ok only when the entire name matches the name
\* production and every entire argument matches the argument production; for
\* any other name or argument it returns a ParseError.
C2_NewValidatesWholeStrings ==
  pc = "constructed" =>
    IF /\ MatchesName(call.name)
       /\ \A j \in 1..Len(call.arguments) : MatchesArgument(call.arguments[j])
    THEN IsOk(msg)
    ELSE IsErr(msg, "ParseError")

\* C3: Message::from_str returns a Message only when the whole input matches
\* the message grammar through its terminating EOL or EOF: it never returns a
\* Message built from a prefix while input after it is left unconsumed.
C3_FromStrConsumesWholeInput ==
  (pc = "parsed" /\ IsOk(parsed)) => message(text).rest = <<>>

\* a backslash directly followed by one of the escape letters
NoEscapePair(s) == \A j \in 1..(Len(s) - 1) : ~(s[j] = BSL /\ s[j + 1] \in EscapeLetters)

\* the typed values whose string fields hold no backslash followed by an
\* escape letter and whose optional strings are not present-but-empty
PlainStrings == {s \in StringPool : NoEscapePair(s)}
PlainValues == ValuesOver(PlainStrings, OptionPool(PlainStrings \ {<<>>}))

\* C4: for every typed value of every derived message family whose strings
\* stay clear of the two excluded cases, to_message, to_string, from_str and
\* try_from in turn give back exactly that value.
C4_TypedRoundTrip ==
  (value # Null /\ value \in PlainValues) =>
    /\ pc = "parsed" => IsOk(parsed)
    /\ pc = "decoded" => decoded = Ok(value)

\* the Message a decode step was handed
Decoding(family) ==
  /\ pc = "decoded"
  /\ call.family.family = family
  /\ parsed.val.name = call.family.name

\* C5: decoding a Message of any kind, name and argument list into any
\* family type returns a typed value or a KatcpError; it never aborts, also
\* not when the family declares no variant for the Message's kind.
C5_DecodeNeverPanics ==
  pc = "decoded" => decoded.tag \in {"Ok", "Err"}

\* C6: a Message whose name is not the family's kebab-case name decodes to
\* IncorrectType whatever its kind and arguments are, and MissingArgument and
\* BadArgument are only returned for a Message whose name is the family's.
C6_NameCheckedFirst ==
  pc = "decoded" =>
    /\ parsed.val.name # call.family.name => decoded = Err("IncorrectType")
    /\ (IsErr(decoded, "MissingArgument") \/ IsErr(decoded, "BadArgument"))
         => parsed.val.name = call.family.name

\* a help reply carrying halt's name and a first argument that is no return
\* code has been decoded as Help
C6_Witness ==
  /\ pc = "decoded"
  /\ call.family.family = "Help"
  /\ parsed.val.kind = "Reply"
  /\ parsed.val.name = Halt.name
  /\ parsed.val.arguments = << <<"x">> >>
  /\ decoded = Err("IncorrectType")

\* the number of f32 parameters the verb s requires, -1 when s is no verb
Required(s) ==
  IF \E j \in 1..Len(SamplingStrategy) : SamplingStrategy[j][2] = s
  THEN SamplingStrategy[CHOOSE j \in 1..Len(SamplingStrategy) : SamplingStrategy[j][2] = s][3]
  ELSE -1

\* C7: a sensor-sampling request whose strategy verb is followed by a number
\* of numeric parameters other than the number the verb requires decodes to
\* an error, never to a request with the strategy absent or cut short.
C7_WrongParamCountIsError ==
  (/\ Decoding("SensorSampling")
   /\ parsed.val.kind = "Request"
   /\ Len(parsed.val.arguments) >= 2
   /\ Required(parsed.val.arguments[2]) >= 0
   /\ \A j \in 3..Len(parsed.val.arguments) : IsOk(ParseFloat(parsed.val.arguments[j]))
   /\ Len(parsed.val.arguments) - 2 # Required(parsed.val.arguments[2]))
  => decoded.tag = "Err"

\* C8: a help, sensor-list or sensor-value request with no arguments decodes
\* to the Request with name absent, and an interface-changed inform with no
\* arguments is accepted.
C8_OmittedArgumentsDecode ==
  (pc = "decoded" /\ parsed.val.name = call.family.name /\ parsed.val.arguments = <<>>) =>
    /\ (call.family.family \in {"Help", "SensorList", "SensorValue"}
        /\ parsed.val.kind = "Request")
         => decoded = Ok(Typed(call.family, "Request", [name |-> None]))
    /\ (call.family.family = "InterfaceChanged" /\ parsed.val.kind = "Inform")
         => IsOk(decoded)

\* the families whose Reply wraps GenericReply / IntReply
GenericReplyFamilies == {"Halt", "Restart", "Watchdog"}
IntReplyFamilies == {"Help", "VersionList", "SensorList", "SensorValue", "ClientList"}

OkCode == <<"o","k">>
FailureCodes ==
  [c \in {<<"i","n","v","a","l","i","d">>, <<"f","a","i","l">>} |->
     IF c = <<"f","a","i","l">> THEN "Fail" ELSE "Invalid"]

\* C9: decoding a coded-result reply: ok gives the success case (with the next
\* argument as u32 for IntReply); invalid or fail gives the failure case with
\* that code and the unescaped next string; any other first argument gives
\* BadArgument; a missing code, a missing message after invalid or fail, and
\* a missing count after ok in IntReply give MissingArgument.
C9_CodedResultDecode ==
  (/\ pc = "decoded"
   /\ call.family.family \in GenericReplyFamilies \cup IntReplyFamilies
   /\ parsed.val.name = call.family.name
   /\ parsed.val.kind = "Reply")
  =>
  LET a == parsed.val.arguments
      int == call.family.family \in IntReplyFamilies
      result(d) == Ok(Typed(call.family, "Reply",
                            Wrapped(IF int THEN "IntReply" ELSE "GenericReply", d)))
  IN IF a = <<>> THEN decoded = Err("MissingArgument")
     ELSE IF a[1] = OkCode
     THEN IF ~int THEN decoded = result([variant |-> "Ok"])
          ELSE IF Len(a) < 2 THEN decoded = Err("MissingArgument")
          ELSE IsOk(ParseU32(a[2]))
                 => decoded = result([variant |-> "Ok", num |-> ParseU32(a[2]).val])
     ELSE IF a[1] \in DOMAIN FailureCodes
     THEN IF Len(a) < 2 THEN decoded = Err("MissingArgument")
          ELSE decoded = result([variant |-> "Error", ret_code |-> FailureCodes[a[1]],
                                 message |-> unescape(a[2])])
     ELSE decoded = Err("BadArgument")

\* a halt reply `fail a\_b` has been decoded to the failure case with the
\* message unescaped
C9_Witness ==
  /\ Decoding("Halt")
  /\ parsed.val.kind = "Reply"
  /\ parsed.val.arguments = << <<"f","a","i","l">>, <<"a", BSL, "_", "b">> >>
  /\ decoded = Ok(Typed(Halt, "Reply",
                        Wrapped("GenericReply", [variant |-> "Error", ret_code |-> "Fail",
                                                 message |-> <<"a", SP, "b">>])))

\* a sensor-value / sensor-status inform whose timestamp and count decode,
\* at its decode or right after its encode
UpdateFamilies == {"SensorValue", "SensorStatus"}
UpdateDecoded ==
  /\ pc = "decoded"
  /\ call.family.family \in UpdateFamilies
  /\ parsed.val.name = call.family.name
  /\ parsed.val.kind = "Inform"
  /\ Len(parsed.val.arguments) >= 2
  /\ IsOk(timestamp_from_argument(parsed.val.arguments[1]))
  /\ IsOk(ParseU32(parsed.val.arguments[2]))
UpdateCount == ParseU32(parsed.val.arguments[2]).val
UpdateFollow == Drop(parsed.val.arguments, 2)
UpdateEncoded ==
  /\ pc = "constructed"
  /\ value.family \in UpdateFamilies
  /\ value.kind = "Inform"

\* what the claim says of the decoded list and of the encoder
C10_Common ==
  /\ UpdateDecoded =>
       /\ IsOk(decoded) => Len(decoded.val.data.SensorUpdates.readings) = UpdateCount
       /\ (UpdateCount = 0 /\ UpdateFollow = <<>>) =>
            (IsOk(decoded) /\ decoded.val.data.SensorUpdates.readings = <<>>)
  /\ UpdateEncoded =>
       /\ msg.val.arguments[2] = U32ToString(Len(value.data.SensorUpdates.readings))
       /\ Len(msg.val.arguments) = 2 + 3 * Len(value.data.SensorUpdates.readings)

\* C10 as claimed: decoding a sensor-value / sensor-status inform reads a
\* timestamp, a count n and n (name, status, value) triples; a success has
\* exactly n readings; fewer than 3n arguments after the count give
\* MissingArgument; count 0 followed by nothing succeeds with no readings;
\* the encoder writes a count equal to the number of readings it writes.
C10_CountPrefixedRepetition ==
  /\ C10_Common
  /\ (UpdateDecoded /\ Len(UpdateFollow) < 3 * UpdateCount) =>
       decoded = Err("MissingArgument")

\* the status arguments present after the count (the second of each triple)
\* are all status labels
StatusLabels == {Status[j][2] : j \in 1..Len(Status)}
PresentStatusesValid ==
  \A j \in 1..Len(UpdateFollow) : j % 3 = 2 => UpdateFollow[j] \in StatusLabels

\* C10 amended: as claimed, except that fewer than 3n arguments after the
\* count give MissingArgument when every status argument present is a status
\* label, and BadArgument when one of them is not.
C10_CountPrefixedRepetitionAmended ==
  /\ C10_Common
  /\ (UpdateDecoded /\ Len(UpdateFollow) < 3 * UpdateCount) =>
       decoded = IF PresentStatusesValid THEN Err("MissingArgument")
                 ELSE Err("BadArgument")

\* count 2 followed by one complete triple has been decoded to MissingArgument
C10_Witness ==
  /\ UpdateDecoded
  /\ UpdateCount = 2
  /\ UpdateFollow = << <<"a">>, <<"w","a","r","n">>, <<"a">> >>
  /\ decoded = Err("MissingArgument")

\* the argument positions a decode requires, each with the result of reading
\* it: the fields of a named variant; the code and the count or message of an
\* IntReply; the sensor name of a sampling request and, when a verb follows,
\* the verb and the parameters the verb takes
RequiredReads(variant, a) ==
  CASE variant.shape = "Named" ->
         [j \in 1..Len(variant.fields) |-> next_argument(variant.fields[j].ty, a, j)]
    [] variant.ty = "IntReply" ->
         << next_argument(TDiscrete(RetCode), a, 1),
            next_argument(IF Len(a) >= 1 /\ a[1] = OkCode THEN TU32 ELSE TString, a, 2) >>
    [] variant.ty = "SamplingRequest" ->
         << next_argument(TString, a, 1) >> \o
         (IF Len(a) < 2 THEN <<>>
          ELSE IF Required(unescape(a[2])) < 0 THEN << Err("BadArgument") >>
          ELSE << Ok(unescape(a[2])) >> \o
               [j \in 1..Required(unescape(a[2])) |-> next_argument(TF32, a, j + 2)])

\* a decode of a name-matching Message by a named variant, an IntReply or a
\* SamplingRequest
PositionalDecode ==
  /\ pc = "decoded"
  /\ call.family \in Derived
  /\ parsed.val.name = call.family.name
  /\ \/ call.family[parsed.val.kind].shape = "Named"
     \/ /\ call.family[parsed.val.kind].shape = "Unnamed"
        /\ call.family[parsed.val.kind].ty \in {"IntReply", "SamplingRequest"}

\* the leftmost position whose read is not Ok, 0 when every read is
Leftmost(reads) ==
  IF \A j \in 1..Len(reads) : IsOk(reads[j]) THEN 0
  ELSE CHOOSE j \in 1..Len(reads) :
         ~IsOk(reads[j]) /\ \A other \in 1..(j - 1) : IsOk(reads[other])

PropagatesLeftmost(reads) ==
  IF Leftmost(reads) = 0 THEN IsOk(decoded) ELSE decoded = reads[Leftmost(reads)]

\* C11: a failing decode of a name-matching Message returns exactly the error
\* of the leftmost argument position that is missing or fails its scalar
\* decode, and as soon as one required argument is missing or fails no typed
\* value is returned.
C11_LeftmostFailureUnchanged ==
  PositionalDecode =>
    PropagatesLeftmost(RequiredReads(call.family[parsed.val.kind], parsed.val.arguments))

\* the letters that follow a backslash in an escape sequence other than the
\* doubled backslash
ReservedLetters == EscapeLetters \ {BSL}

\* no backslash of s is directly followed by a reserved letter
NoReservedPair(s) ==
  \A j \in 1..(Len(s) - 1) : ~(s[j] = BSL /\ s[j + 1] \in ReservedLetters)

\* a value of scalar type t has been converted to a token and back
ConvertedBack(t) ==
  /\ pc = "converted"
  /\ call.given = "value"
  /\ call.ty.t = t

\* C12: unescape(escape(s)) = s for every string s, the empty one included,
\* in which no backslash is directly followed by one of _ 0 n r e t @.
C12_EscapeRoundTrip ==
  (ConvertedBack("String") /\ NoReservedPair(value)) =>
    /\ text = escape(value)
    /\ decoded = Ok(value)
    /\ unescape(escape(value)) = value

\* the string backslash, space, backslash has been escaped and unescaped
C12_Witness ==
  /\ ConvertedBack("String")
  /\ value = <<BSL, SP, BSL>>
  /\ text = <<BSL, BSL, BSL, "_", BSL, BSL>>
  /\ decoded = Ok(<<BSL, SP, BSL>>)

\* the scalar values the round-trip law is claimed for: bool, i32, u32,
\* discrete labels, addresses, strings without a reserved pair, and the
\* optionals of these except a present empty string
RECURSIVE RoundTripClaimed(_, _)
RoundTripClaimed(ty, v) ==
  CASE ty.t \in {"bool", "i32", "u32", "Discrete", "KatcpAddress"} -> TRUE
    [] ty.t = "String" -> NoReservedPair(v)
    [] ty.t = "Option" ->
         \/ v = None
         \/ /\ RoundTripClaimed(ty.of, v[1])
            /\ ~(ty.of.t = "String" /\ v[1] = <<>>)
    [] OTHER -> FALSE

IdAbsentOrPositive(i) == i = None \/ i[1] >= 1

\* the text holds a bracket directly followed by a zero
ZeroAfterBracket(s) == \E j \in 1..(Len(s) - 1) : s[j] = "[" /\ s[j + 1] = "0"

\* the digits of a received id are zero, start with a zero, or exceed 32 bits
IdDigitsInvalid(digits) ==
  digits # <<>> /\ SpanIn(digits, Digit) = Len(digits)
  /\ (Head(digits) = "0" \/ ExceedsU32(digits))

\* C14: every Message returned by Message::new or by the parser has an id
\* that is absent or positive, so its serialized form never shows [0 ; the
\* parser rejects [0], an id with a leading zero and an id above 32 bits.
C14_IdAbsentOrPositive ==
  /\ (pc = "constructed" /\ IsOk(msg)) => IdAbsentOrPositive(msg.val.id)
  /\ (pc = "serialized" /\ IsOk(msg)) => ~ZeroAfterBracket(text)
  /\ (pc = "parsed" /\ IsOk(parsed)) => IdAbsentOrPositive(parsed.val.id)
  /\ (pc = "parsed" /\ "digits" \in DOMAIN call /\ IdDigitsInvalid(call.digits))
       => IsErr(parsed, "ParseError")

\* the sigil of each kind
Sigil == [k \in MessageKind |-> CASE k = "Request" -> "?" [] k = "Reply" -> "!"
                                  [] k = "Inform" -> "#"]

\* the decimal digits of the positive or zero integer n: no sign, no leading
\* zero
IsDecimalOf(ds, n) ==
  /\ ds # <<>>
  /\ SpanIn(ds, Digit) = Len(ds)
  /\ Len(ds) > 1 => Head(ds) # "0"
  /\ DigitsValue(ds, 0) = n

\* the position before argument j: after the sigil, the name, the id and the
\* arguments before j, each with its space
RECURSIVE ArgumentsWidth(_, _)
ArgumentsWidth(arguments, j) ==
  IF j = 0 THEN 0 ELSE ArgumentsWidth(arguments, j - 1) + 1 + Len(arguments[j])

\* s is the sigil, the name, [id] when present, each argument after one
\* space, and one LF, and nothing else
SerializedLayout(m, s, w) ==
  /\ Len(s) = 1 + Len(m.name) + w + ArgumentsWidth(m.arguments, Len(m.arguments)) + 1
  /\ s[1] = Sigil[m.kind]
  /\ SubSeq(s, 2, 1 + Len(m.name)) = m.name
  /\ m.id # None =>
       /\ s[2 + Len(m.name)] = "["
       /\ IsDecimalOf(SubSeq(s, 3 + Len(m.name), Len(m.name) + w), m.id[1])
       /\ s[1 + Len(m.name) + w] = "]"
  /\ \A j \in 1..Len(m.arguments) :
       /\ s[2 + Len(m.name) + w + ArgumentsWidth(m.arguments, j - 1)] = SP
       /\ SubSeq(s, 3 + Len(m.name) + w + ArgumentsWidth(m.arguments, j - 1),
                 1 + Len(m.name) + w + ArgumentsWidth(m.arguments, j)) = m.arguments[j]
  /\ s[Len(s)] = LF

\* C15: the serialized text of a Message is its kind's sigil, its name, [id]
\* directly after the name when an id is present, each argument in order
\* after exactly one space, then exactly one LF, and nothing else.
C15_SerializedLayout ==
  (pc = "serialized" /\ IsOk(msg)) =>
    \E w \in 0..Len(text) :
      /\ (w = 0) <=> (msg.val.id = None)
      /\ SerializedLayout(msg.val, text, w)

\* the inform a-b with id 10 and the arguments a and b\_ has been serialized
C15_Witness ==
  /\ pc = "serialized"
  /\ msg = Ok([kind |-> "Inform", name |-> <<"a", "-", "b">>, id |-> Some(10),
               arguments |-> << <<"a">>, <<"b", BSL, "_">> >>])
  /\ text = <<"#", "a", "-", "b", "[", "1", "0", "]", SP, "a", SP, "b", BSL, "_", LF>>

\* C16: encoding and decoding are functions of their input: every Message
\* that to_message can return for the typed value in hand is the one it
\* returned (also for a katcp-protocol inform with two or more flags), the
\* text is the one its Message serializes to, and the decoded result is the
\* one its Message decodes to.
C16_Deterministic ==
  /\ (pc = "constructed" /\ value # Null) =>
       \A again \in encode(call.family, value, None) : again = msg
  /\ (pc = "serialized" /\ value # Null) => text = to_string(msg.val)
  /\ pc = "decoded" => decoded = decode(call.family, parsed.val)

\* a sensor-list inform with its three strings and a fourth argument
SensorListDecoded ==
  /\ Decoding("SensorList")
  /\ parsed.val.kind = "Inform"
  /\ Len(parsed.val.arguments) >= 4

\* the kind the tag s names, "" when it names none
KindOfTag(s) ==
  IF \E j \in 1..Len(ArgumentType) : ArgumentType[j][2] = s
  THEN ArgumentType[CHOOSE j \in 1..Len(ArgumentType) : ArgumentType[j][2] = s][1]
  ELSE ""

\* the decoder of the elements of each kind of list
ElementDecoder(k, s) ==
  CASE k = "Integer" -> from_argument(TI32, s)
    [] k = "Float" -> from_argument(TF32, s)
    [] k = "Boolean" -> from_argument(TBool, s)
    [] k = "Timestamp" -> from_argument(TTimestamp, s)
    [] k = "Address" -> from_argument(TAddress, s)
    [] k \in {"Discrete", "String"} -> from_argument(TString, s)

\* the outcome for the elements `rest` of a list of kind k: every element
\* decoded gives the list of all of them; otherwise the outcome of the first
\* element that does not decode, an error being BadArgument
ListOutcome(k, a, rest) ==
  IF \A j \in 1..Len(rest) : IsOk(ElementDecoder(k, rest[j]))
  THEN /\ IsOk(decoded)
       /\ decoded.val.data.SensorListInform =
            [name |-> unescape(a[1]), description |-> unescape(a[2]),
             units |-> unescape(a[3]),
             params |-> ArgumentVec(k, [j \in 1..Len(rest) |->
                                          ElementDecoder(k, rest[j]).val])]
  ELSE \E j \in 1..Len(rest) :
         /\ \A before \in 1..(j - 1) : IsOk(ElementDecoder(k, rest[before]))
         /\ ~IsOk(ElementDecoder(k, rest[j]))
         /\ decoded = ElementDecoder(k, rest[j])
         /\ decoded.tag = "Err" => decoded = Err("BadArgument")

VersionDecoded ==
  /\ Decoding("VersionConnect")
  /\ parsed.val.kind = "Inform"
  /\ Len(parsed.val.arguments) >= 1

\* the shape each named leading literal selects
NamedShapes ==
  [l \in {KatcpProtocolName, KatcpLibraryName, KatcpDeviceName} |->
     IF l = KatcpProtocolName THEN "KatcpProtocol"
     ELSE IF l = KatcpLibraryName THEN "KatcpLibrary" ELSE "KatcpDevice"]

\* the Custom inform the arguments a spell
CustomOf(a) ==
  [variant |-> "Custom", name |-> a[1], version |-> unescape(a[2]),
   info |-> IF Len(a) >= 3 THEN Some(unescape(a[3])) ELSE None]

\* C18: in a version-connect inform a first argument katcp-protocol,
\* katcp-library or katcp-device selects exactly that shape; any other first
\* argument is no unknown-literal error but selects Custom, with that literal
\* as its name, the next argument as its version and the third argument, if
\* there is one, as its info.
C18_LeadingLiteral ==
  VersionDecoded =>
    IF parsed.val.arguments[1] \in DOMAIN NamedShapes
    THEN /\ IsOk(decoded) =>
              decoded.val.data.VersionConnectInform.variant
                = NamedShapes[parsed.val.arguments[1]]
         /\ (parsed.val.arguments[1] = KatcpLibraryName /\ Len(parsed.val.arguments) >= 3)
              => IsOk(decoded)
    ELSE /\ decoded # Err("BadArgument")
         /\ Len(parsed.val.arguments) >= 2 =>
              /\ IsOk(decoded)
              /\ decoded.val.data.VersionConnectInform = CustomOf(parsed.val.arguments)

\* the inform `x 1.2 a\_b` has been decoded to Custom with its info present
C18_Witness ==
  /\ VersionDecoded
  /\ parsed.val.arguments = << <<"x">>, <<"1", ".", "2">>, <<"a", BSL, "_", "b">> >>
  /\ decoded = Ok(Typed(VersionConnect, "Inform",
                        Wrapped("VersionConnectInform",
                                [variant |-> "Custom", name |-> <<"x">>,
                                 version |-> <<"1", ".", "2">>,
                                 info |-> Some(<<"a", SP, "b">>)])))

\* a token has been converted as an address
AddressDecoded ==
  /\ pc = "converted"
  /\ call.given = "token"
  /\ call.ty.t = "KatcpAddress"

\* the text between the brackets of a bracketed token is an IPv6 literal
BracketedV6(s) ==
  /\ Len(s) >= 2
  /\ Head(s) = "[" /\ s[Len(s)] = "]"
  /\ IsOk(ParseIpAddr(SubSeq(s, 2, Len(s) - 1)))
  /\ ParseIpAddr(SubSeq(s, 2, Len(s) - 1)).val.v = 6

\* C19: a non-empty token decodes to a socket address if it parses as
\* IPv4:port or [IPv6]:port, otherwise to a bare IP if it parses as an IP
\* literal, otherwise to a bare IPv6 address if it is a bracketed IPv6
\* literal; a bracketed token whose content is no IPv6 literal, any other
\* token and the empty token give BadArgument.
C19_AddressPrecedence ==
  AddressDecoded =>
    decoded = IF text = <<>> THEN Err("BadArgument")
              ELSE IF IsOk(ParseSocketAddr(text)) THEN ParseSocketAddr(text)
              ELSE IF IsOk(ParseIpAddr(text)) THEN ParseIpAddr(text)
              ELSE IF BracketedV6(text) THEN ParseIpAddr(SubSeq(text, 2, Len(text) - 1))
              ELSE Err("BadArgument")

AbsentToken == <<BSL, "@">>

\* an optional value or a token read as an optional
OptionalGiven(given) ==
  /\ pc \in {"argument", "converted"}
  /\ call.given = given
  /\ call.ty.t = "Option"

DecimalStamp(s) ==
  /\ s # <<>>
  /\ SpanIn(s, Digit) >= 1
  /\ \/ SpanIn(s, Digit) = Len(s)
     \/ /\ s[SpanIn(s, Digit) + 1] = "."
        /\ Len(s) >= SpanIn(s, Digit) + 2
        /\ SpanIn(Drop(s, SpanIn(s, Digit) + 1), Digit) = Len(s) - SpanIn(s, Digit) - 1
StampOf(s) ==
  [secs |-> DigitsValue(Take(s, SpanIn(s, Digit)), 0),
   nanos |-> NanosOf(Drop(s, SpanIn(s, Digit) + 1))]

\* a log inform with a level and four arguments has been decoded
LogInformDecoded ==
  /\ pc = "decoded"
  /\ call.family.family = "Log"
  /\ parsed.val.name = Log.name
  /\ parsed.val.kind = "Inform"
  /\ Len(parsed.val.arguments) >= 4
  /\ IsOk(discrete_from_argument(LogLevel, parsed.val.arguments[1]))

\* C21: a timestamp token S or S.F of decimal digits decodes to S whole
\* seconds plus 0.F as nanoseconds, never forced to zero, in the log inform
\* decoder as well as in the generic timestamp decoder (the one the
\* sensor-value / sensor-status informs use).
C21_TimestampKeepsFraction ==
  /\ (LogInformDecoded /\ DecimalStamp(parsed.val.arguments[2])) =>
       /\ IsOk(decoded)
       /\ decoded.val.data.timestamp = StampOf(parsed.val.arguments[2])
  /\ (UpdateDecoded /\ IsOk(decoded) /\ DecimalStamp(parsed.val.arguments[1])) =>
       decoded.val.data.SensorUpdates.timestamp = StampOf(parsed.val.arguments[1])

\* the serialized texts of the Messages after the first n, concatenated
RECURSIVE StreamFrom(_, _)
StreamFrom(messages, n) ==
  IF n >= Len(messages) THEN <<>>
  ELSE to_string(messages[n + 1]) \o StreamFrom(messages, n + 1)

\* C22: many1(message) applied to the concatenated serialized texts of
\* parsed Messages m1..mk (k >= 1) returns exactly m1..mk in order with
\* nothing left of the input; each single parse consumes exactly one line
\* with its terminator.
C22_StreamParse ==
  /\ pc = "streaming" =>
       /\ Len(parsed) <= Len(value)
       /\ parsed = Take(value, Len(parsed))
       /\ call.rest = StreamFrom(value, Len(parsed))
  /\ (pc = "streamed" /\ text # <<>>) =>
       decoded = Ok([rest |-> <<>>, messages |-> value])

\* a stream of three Messages, one with an id and one with an escaped
\* argument, has been read back whole
C22_Witness ==
  /\ pc = "streamed"
  /\ text # <<>>
  /\ Len(value) = MaxMessages
  /\ value[1] = new_unchecked("Reply", <<"b">>, Some(7), << <<"x">> >>)
  /\ value[2] = new_unchecked("Inform", <<"c", "-", "d">>, None, << <<BSL, "_", "y">> >>)
  /\ decoded = Ok([rest |-> <<>>, messages |-> value])

RECURSIVE Words(_)
Words(s) ==
  IF IndexOf(s, SP) = 0 THEN <<s>>
  ELSE <<Take(s, IndexOf(s, SP) - 1)>> \o Words(Drop(s, IndexOf(s, SP)))

\* [digits] with no leading zero, or nothing
CanonicalId(s) ==
  \/ s = <<>>
  \/ /\ Len(s) >= 3
     /\ Head(s) = "[" /\ s[Len(s)] = "]"
     /\ s[2] \in DigitNonZero
     /\ \A j \in 2..(Len(s) - 1) : s[j] \in Digit

\* sigil, name, optional id
CanonicalHead(s) ==
  /\ Len(s) >= 2
  /\ Head(s) \in {"?", "!", "#"}
  /\ \E n \in 1..(Len(s) - 1) :
       /\ MatchesName(SubSeq(s, 2, n + 1))
       /\ CanonicalId(Drop(s, n + 1))

\* canonical form: sigil, name, optional id without leading zero, each
\* argument after exactly one space, no trailing whitespace, one LF at the end
Canonical(l) ==
  /\ l # <<>>
  /\ l[Len(l)] = LF
  /\ CanonicalHead(Head(Words(Take(l, Len(l) - 1))))
  /\ \A j \in 2..Len(Words(Take(l, Len(l) - 1))) :
       MatchesArgument(Words(Take(l, Len(l) - 1))[j])

\* C24: a line that parses and is in canonical form is serialized back to
\* itself; the serialized text of any line that parses is canonical and
\* parses to the same Message as the line.
C24_CanonicalFixedPoint ==
  /\ (pc \in {"reserialized", "reparsed"} /\ Canonical(text)) => value = text
  /\ pc \in {"reserialized", "reparsed"} => Canonical(value)
  /\ pc = "reparsed" => decoded = parsed

\* a reply with tabs, doubled spaces, trailing whitespace and a CR has been
\* rewritten in canonical form and parsed again
C24_Witness ==
  /\ pc = "reparsed"
  /\ text = <<"!", "b", "[", "7", "]", TAB, "x", SP, SP, BSL, "_", "y", SP, CR>>
  /\ value = <<"!", "b", "[", "7", "]", SP, "x", SP, BSL, "_", "y", LF>>
  /\ decoded = parsed

\* an interface-changed inform with a leading argument
InterfaceDecoded ==
  /\ Decoding("InterfaceChanged")
  /\ parsed.val.kind = "Inform"
  /\ Len(parsed.val.arguments) >= 1

\* the three action labels and the action each one names
ActionLabels ==
  [l \in {<<"a","d","d","e","d">>, <<"r","e","m","o","v","e","d">>,
          <<"m","o","d","i","f","i","e","d">>} |->
     IF l = <<"a","d","d","e","d">> THEN "Added"
     ELSE IF l = <<"r","e","m","o","v","e","d">> THEN "Removed" ELSE "Modified"]

\* what the arguments a of an interface-changed inform decode to
InterfaceOutcome(a) ==
  IF a[1] = <<"s","e","n","s","o","r","-","l","i","s","t">>
  THEN Ok([variant |-> "SensorList"])
  ELSE IF a[1] = <<"r","e","q","u","e","s","t","-","l","i","s","t">>
  THEN Ok([variant |-> "RequestList"])
  ELSE IF a[1] \in {<<"s","e","n","s","o","r">>, <<"r","e","q","u","e","s","t">>}
  THEN IF Len(a) < 3 THEN Err("MissingArgument")
       ELSE IF a[3] \notin DOMAIN ActionLabels THEN Err("BadArgument")
       ELSE Ok([variant |-> IF a[1] = <<"s","e","n","s","o","r">> THEN "Sensor" ELSE "Request",
                name |-> unescape(a[2]), action |-> ActionLabels[a[3]]])
  ELSE Err("BadArgument")

\* C25: in an interface-changed inform a first argument sensor-list or
\* request-list decodes to that shape whatever follows; sensor or request
\* needs a name and an action label (MissingArgument when either is absent,
\* BadArgument for a label other than added, removed, modified); any other
\* first argument gives BadArgument and never a catch-all shape.
C25_ClosedLeadingLiteral ==
  InterfaceDecoded =>
    decoded = IF IsOk(InterfaceOutcome(parsed.val.arguments))
              THEN Ok(Typed(InterfaceChanged, "Inform",
                            Wrapped("InterfaceChangeInform",
                                    InterfaceOutcome(parsed.val.arguments).val)))
              ELSE InterfaceOutcome(parsed.val.arguments)

\* the inform `sensor a\_b removed` has been decoded
C25_Witness ==
  /\ InterfaceDecoded
  /\ parsed.val.arguments
       = << <<"s","e","n","s","o","r">>, <<"a", BSL, "_", "b">>,
            <<"r","e","m","o","v","e","d">> >>
  /\ decoded = Ok(Typed(InterfaceChanged, "Inform",
                        Wrapped("InterfaceChangeInform",
                                [variant |-> "Sensor", name |-> <<"a", SP, "b">>,
                                 action |-> "Removed"])))

\* a token has been converted as a u32 or an i32
IntegerDecoded ==
  /\ pc = "converted"
  /\ call.given = "token"
  /\ call.ty.t \in {"u32", "i32"}

\* the token without its sign, when it starts with one of the signs
Unsign(s, signs) == IF s # <<>> /\ Head(s) \in signs THEN Tail(s) ELSE s

\* the largest magnitude the type holds behind the token's sign
Magnitude(ty, s) ==
  IF ty.t = "u32" THEN <<"4","2","9","4","9","6","7","2","9","5">>
  ELSE IF s # <<>> /\ Head(s) = "-" THEN <<"2","1","4","7","4","8","3","6","4","8">>
  ELSE <<"2","1","4","7","4","8","3","6","4","7">>

\* an optional sign out of signs, then one or more decimal digits that denote
\* a value of the type
DenotesInteger(ty, s, signs) ==
  /\ Unsign(s, signs) # <<>>
  /\ \A j \in 1..Len(Unsign(s, signs)) : Unsign(s, signs)[j] \in Digit
  /\ ~DigitsExceed(Unsign(s, signs), Magnitude(ty, s))

\* the value the token denotes, written without '+' and leading zeros
Denoted(s) ==
  IF StripZeros(Unsign(s, {"+", "-"})) = <<>> THEN <<"0">>
  ELSE (IF Head(s) = "-" THEN <<"-">> ELSE <<>>) \o StripZeros(Unsign(s, {"+", "-"}))

\* tokens of the type decode exactly when they are digits behind an optional
\* sign out of signs[type] and in range, to the value they denote; every
\* other token gives BadArgument
IntegerLaw(signs) ==
  IntegerDecoded =>
    IF DenotesInteger(call.ty, text, signs[call.ty.t])
    THEN /\ IsOk(decoded)
         /\ to_argument(call.ty, decoded.val) = Denoted(text)
    ELSE decoded = Err("BadArgument")

\* C26: a u32 token decodes exactly when it is a non-empty string of decimal
\* digits denoting a value in 0..2^32-1, an i32 token exactly when it is an
\* optional '-' followed by decimal digits denoting a value in
\* -2^31..2^31-1; every other token, a leading '+' included, gives
\* BadArgument, and nothing wraps modulo 2^32.
C26_IntegerDecode == IntegerLaw([u32 |-> {}, i32 |-> {"-"}])

\* C26 amended: as claimed, except that a leading '+' is accepted by both
\* types (and a leading '-' by i32 only).
C26_IntegerDecodeAmended == IntegerLaw([u32 |-> {"+"}, i32 |-> {"+", "-"}])

\* the token -2147483648 has been read as the smallest i32, and the token
\* one below it is about to be refused
C26_Witness ==
  /\ IntegerDecoded
  /\ call.ty.t = "i32"
  /\ text = <<"-", "2","1","4","7","4","8","3","6","4","8">>
  /\ decoded = Ok(-2147483647 - 1)

\* the sensor as its getters show it
Observed(self) ==
  [status |-> Sensor_status(self), last_updated |-> Sensor_last_updated(self),
   value |-> Sensor_value(self)]

\* a step that is a call of update, a successful call of
\* update_from_reading, a failed one
Updated == pc = "sensor" /\ call'.op = "update"
ReadingTaken == pc = "sensor" /\ call'.op = "update_from_reading" /\ IsOk(decoded')
ReadingRefused ==
  pc = "sensor" /\ call'.op = "update_from_reading" /\ ~IsOk(decoded')

\* C27: after update(status, ts, value) the getters show that status, ts and
\* value; after a successful update_from_reading(ts, reading) they show the
\* reading's status, ts and the reading's value decoded with the sensor's
\* value type; a call that does not succeed leaves what they show, so after
\* any sequence of calls they show the last successful call.
C27_LastSuccessfulCall ==
  [][/\ Updated =>
          Observed(value') = [status |-> call'.status, last_updated |-> call'.timestamp,
                              value |-> call'.value]
     /\ ReadingTaken =>
          /\ Sensor_status(value') = call'.reading.status
          /\ Sensor_last_updated(value') = call'.timestamp
          /\ Ok(Sensor_value(value')) = from_argument(value.T, call'.reading.value)
     /\ ReadingRefused => Observed(value') = Observed(value)]_vars

\* an f32 sensor holds the reading 1.5 taken with status warn at 5.5 s
C27_Witness ==
  /\ pc = "sensor"
  /\ call.op = "update_from_reading"
  /\ call.reading = [name |-> <<"a">>, status |-> "Warn", value |-> <<"1", ".", "5">>]
  /\ decoded = Ok(<<>>)
  /\ value.T = TF32
  /\ Observed(value) = [status |-> "Warn", last_updated |-> [secs |-> 5, nanos |-> 500000000],
                        value |-> ParseFloat(<<"1", ".", "5">>).val]

Escaped(letter) ==
  CASE letter = BSL -> <<BSL>>
    [] letter = "_" -> <<SP>>
    [] letter = "0" -> <<NUL>>
    [] letter = "n" -> <<LF>>
    [] letter = "r" -> <<CR>>
    [] letter = "e" -> <<ESC>>
    [] letter = "t" -> <<TAB>>
    [] letter = "@" -> <<>>

\* one pass over a token from left to right: a backslash and the escape
\* letter after it give what the pair stands for, any other character itself
RECURSIVE SinglePass(_)
SinglePass(t) ==
  IF t = <<>> THEN <<>>
  ELSE IF Len(t) >= 2 /\ t[1] = BSL /\ t[2] \in EscapeLetters
  THEN Escaped(t[2]) \o SinglePass(Drop(t, 2))
  ELSE <<t[1]>> \o SinglePass(Tail(t))

\* a token read as a String
StringDecoded ==
  pc = "converted" /\ call.given = "token" /\ call.ty = TString

\* C29: a token that matches the argument production from end to end decodes
\* as a String to the result of one left-to-right pass that replaces each
\* two-character escape by the character it stands for and copies every
\* other character.
C29_UnescapeSinglePass ==
  (StringDecoded /\ argument(text).ok /\ argument(text).rest = <<>>)
    => decoded = Ok(SinglePass(text))

\* the decoders of fixed shape: the requests without arguments, the replies
\* read by GenericReply and IntReply, the informs with named fields, and the
\* sensor-value and sensor-status informs
FixedShape(family, k) ==
  /\ family \in Derived
  /\ \/ k = "Request" /\ family.Request.shape = "Unit"
     \/ k = "Reply" /\ family.Reply.shape = "Unnamed"
          /\ family.Reply.ty \in {"GenericReply", "IntReply"}
     \/ k = "Inform" /\ family.Inform.shape = "Named"
     \/ k = "Inform" /\ family \in {SensorValue, SensorStatus}

\* the decoder of a fixed shape has answered for a Message that is one it
\* decoded with more arguments at its end
SurplusDecoded ==
  /\ pc = "decoded"
  /\ IsOk(msg)
  /\ Lengthened(msg.val, parsed.val)
  /\ FixedShape(call.family, msg.val.kind)
  /\ IsOk(decode(call.family, msg.val))

\* C30: for the requests without arguments, the GenericReply and IntReply
\* replies, the informs with named fields and the sensor-value and
\* sensor-status informs, a Message that decodes still decodes, to the same
\* value, when any number of further valid arguments are put at its end.
C30_SurplusIgnored ==
  SurplusDecoded => decoded = decode(call.family, msg.val)

\* #version-list with its three fields and two more arguments has decoded
C30_Witness ==
  /\ SurplusDecoded
  /\ call.family = VersionList /\ msg.val.kind = "Inform"
  /\ Len(msg.val.arguments) = 3 /\ Len(parsed.val.arguments) = 5
  /\ IsOk(decoded)

====
